---- MODULE Spec2Model ----
(***************************************************************************)
(* A model of the workflow recorder (terrencekuo/workflow):                *)
(*   - the injected page readiness detector (detectPageReadiness),         *)
(*   - the background RecorderController and its message handlers,         *)
(*   - the rate limiter of VisualCaptureService.captureTabScreenshot.      *)
(* Each part has its own specification (SpecDetector, SpecController,      *)
(* SpecCapture); the variables of the other parts stay at their initial    *)
(* value.  Time is in milliseconds.                                        *)
(***************************************************************************)
EXTENDS Integers, Sequences, FiniteSets, TLC

VARIABLES
    \* -- the page context running detectPageReadiness
    now,              \* Date.now() in the page
    det,              \* the detector: phase, checks, timers, returned result;
                      \* static: the page has not changed, nothing is loading
    skeletonVisible,  \* the page: hasSkeletonElements() would return true
    \* -- the background context: RecorderController
    isRecording,
    currentSessionId, \* 0 is null
    currentTabId,     \* 0 is null
    stepCount,
    storage,          \* chrome.storage.session[RECORDING_STATE]
    restorePc,        \* restoreState() started by the constructor
    nextSession,      \* the id db.createSession hands out next
    fired,            \* the RECORD_STEP events fired so far, numbered in order
    rec,              \* the handleRecordStep invocation of each event
    start,            \* the handleStartRecording invocation
    stop,             \* the stopRecording invocation
    tabChange,        \* the handleTabChange invocation
    pageLoad,         \* the tabs.onUpdated 'complete' invocation
    tabEvents,        \* the tabs.onUpdated / onActivated events handled so far
    dbQueue,          \* the IndexedDB transactions created and not yet finished
    dbSteps,          \* the steps store, in commit order
    \* -- the background context: VisualCaptureService
    bgNow,            \* Date.now() in the service worker
    lastCaptureTime,
    calls,            \* the captureTabScreenshot invocations
    captures,         \* the times chrome.tabs.captureVisibleTab was invoked
    tab,              \* the captured tab: active, zoom
    \* -- the background context: waitForPageReadiness
    wfr,              \* the waitForPageReadiness invocation
    \* -- IndexedDB behind the DB class
    idb,              \* the two object stores and the last DB call
    \* -- the content script
    cnt               \* the element an event hit and what was made of it

detVars == <<now, det, skeletonVisible>>

ctlState == <<isRecording, currentSessionId, currentTabId, stepCount>>

ctlVars == <<isRecording, currentSessionId, currentTabId, stepCount, storage,
             restorePc, nextSession, fired, rec, start, stop, tabChange,
             pageLoad, tabEvents, dbQueue, dbSteps>>

capVars == <<bgNow, lastCaptureTime, calls, captures, tab>>

bndVars == <<wfr>>

dbVars == <<idb>>

cntVars == <<cnt>>

vars == <<detVars, ctlVars, capVars, bndVars, dbVars, cntVars>>

(***************************************************************************)
(* Part 1.  detectPageReadiness                                            *)
(***************************************************************************)

PAGE_LOAD_MAX_TIMEOUT == 10000
DOM_STABILITY_WAIT == 800
SKELETON_MAX_WAIT == 5000
SKELETON_CHECK_INTERVAL == 100
RESOURCE_LOAD_TIMEOUT == 5000

\* Every delay of the detector is a multiple of the skeleton poll interval:
\* time is sampled on that grid.
TimeGrid == SKELETON_CHECK_INTERVAL

\* How long after the global timeout the page is still watched.
Slack == 500
Horizon == PAGE_LOAD_MAX_TIMEOUT + Slack

\* The most img/iframe/video elements found not yet loaded.
MaxResources == 2

NoTimer == -1

startTime == 0

Due(t) == t # NoTimer /\ t <= now

NoChecks == [domStable |-> FALSE, resourcesLoaded |-> FALSE, noSkeletons |-> FALSE]

AllChecks == [domStable |-> TRUE, resourcesLoaded |-> TRUE, noSkeletons |-> TRUE]

NoResult ==
    [returned |-> FALSE, isReady |-> FALSE, reason |-> "", duration |-> 0,
     checks |-> NoChecks]

\* The deadline of the timer behind timeoutPromise.
createTimeout_never == NoTimer

createTimeout == startTime + PAGE_LOAD_MAX_TIMEOUT

\* `await Promise.race([...])` followed by `return {...result, duration}`:
\* the first promise to settle decides the returned state.
Return(d, ready, why, chk) ==
    IF d.result.returned THEN d
    ELSE [d EXCEPT !.result =
            [returned |-> TRUE, isReady |-> ready, reason |-> why,
             duration |-> now - startTime, checks |-> chk]]

\* checksPromise resolves with a state that carries the shared checks object.
ChecksResolve(d, ready, why) ==
    Return([d EXCEPT !.phase = "done"], ready, why, d.checks)

\* checksPromise rejects: the catch block of detectPageReadiness.
ChecksReject(d) ==
    Return([d EXCEPT !.phase = "rejected"], FALSE, "Detection error", NoChecks)

\* The skeleton phase resolves without looking at the page.
EnterSkeleton_blind(d, vis, thr) ==
    IF thr THEN ChecksReject([d EXCEPT !.exception = "sync"])
    ELSE ChecksResolve([d EXCEPT !.checks.noSkeletons = TRUE,
                                 !.lastPollSaw = vis],
                       TRUE, "All checks passed")

\* waitForSkeletonDisappear(): the first checkSkeletons() runs synchronously
\* in the promise executor, so an exception there rejects the promise.
EnterSkeleton(d, vis, thr) ==
    IF thr THEN ChecksReject([d EXCEPT !.exception = "sync"])
    ELSE IF ~vis \/ 0 >= SKELETON_MAX_WAIT
    THEN ChecksResolve([d EXCEPT !.checks.noSkeletons = TRUE,
                                 !.lastPollSaw = vis],
                       TRUE, "All checks passed")
    ELSE [d EXCEPT !.phase = "skeleton", !.skeletonStartTime = now,
                   !.lastPollSaw = vis,
                   !.pollTimer = now + SKELETON_CHECK_INTERVAL]

\* The continuation of `await waitForResources()`.
AfterResources(d, vis, thr) ==
    LET e == [d EXCEPT !.checks.resourcesLoaded = TRUE,
                       !.resourceStartTime = NoTimer,
                       !.resourceTimer = NoTimer, !.pending = {}]
    IN  IF now - startTime >= PAGE_LOAD_MAX_TIMEOUT
        THEN ChecksResolve(e, TRUE, "Resources loaded (timeout before skeleton check)")
        ELSE EnterSkeleton(e, vis, thr)

\* The resources are waited for one after another.
EnterResources_chained(d, k, vis, thr) ==
    IF k = 0 THEN AfterResources(d, vis, thr)
    ELSE [d EXCEPT !.phase = "resources", !.pending = 1..k,
                   !.static = FALSE,
                   !.resourceStartTime = now,
                   !.resourceTimer = now + k * RESOURCE_LOAD_TIMEOUT]

\* waitForResources(): k resources are not loaded yet; each gets a timer, all
\* set in the same synchronous loop.
EnterResources(d, k, vis, thr) ==
    IF k = 0 THEN AfterResources(d, vis, thr)
    ELSE [d EXCEPT !.phase = "resources", !.pending = 1..k,
                   !.static = FALSE,
                   !.resourceStartTime = now,
                   !.resourceTimer = now + RESOURCE_LOAD_TIMEOUT]

\* The skeleton check follows the DOM phase directly.
AfterDOM_skipResources(d, k, vis, thr) ==
    LET e == [d EXCEPT !.checks.domStable = TRUE]
    IN  IF now - startTime >= PAGE_LOAD_MAX_TIMEOUT
        THEN ChecksResolve(e, FALSE, "Timeout after DOM stability")
        ELSE EnterSkeleton(e, vis, thr)

\* The elapsed time is compared with the quiet period.
AfterDOM_wrongBound(d, k, vis, thr) ==
    LET e == [d EXCEPT !.checks.domStable = TRUE]
    IN  IF now - startTime >= DOM_STABILITY_WAIT
        THEN ChecksResolve(e, FALSE, "Timeout after DOM stability")
        ELSE EnterResources(e, k, vis, thr)

\* The continuation of `await waitForDOMStability()`.
AfterDOM(d, k, vis, thr) ==
    LET e == [d EXCEPT !.checks.domStable = TRUE]
    IN  IF now - startTime >= PAGE_LOAD_MAX_TIMEOUT
        THEN ChecksResolve(e, FALSE, "Timeout after DOM stability")
        ELSE EnterResources(e, k, vis, thr)

DetectorStarted ==
    /\ now = startTime
    /\ skeletonVisible \in BOOLEAN
    /\ det = [phase |-> "dom", checks |-> NoChecks, observing |-> TRUE,
              lastMutationTime |-> startTime, mutationTimeout |-> NoTimer,
              initialTimer |-> startTime + DOM_STABILITY_WAIT,
              pending |-> {}, resourceStartTime |-> NoTimer,
              resourceTimer |-> NoTimer,
              skeletonStartTime |-> NoTimer, pollTimer |-> NoTimer,
              lastPollSaw |-> FALSE,
              globalTimer |-> createTimeout, exception |-> "none",
              static |-> ~skeletonVisible, result |-> NoResult]
    \* the background context is not part of this specification
    /\ isRecording = FALSE
    /\ currentSessionId = 0
    /\ currentTabId = 0
    /\ stepCount = 0
    /\ storage = <<>>
    /\ restorePc = "done"
    /\ nextSession = 1
    /\ fired = 0
    /\ rec = <<>>
    /\ start = [pc |-> "idle"]
    /\ stop = [pc |-> "idle"]
    /\ tabChange = [pc |-> "idle"]
    /\ pageLoad = [pc |-> "idle"]
    /\ tabEvents = 0
    /\ dbQueue = <<>>
    /\ dbSteps = <<>>
    /\ bgNow = 0
    /\ lastCaptureTime = 0
    /\ calls = <<>>
    /\ captures = <<>>
    /\ tab = [active |-> TRUE, zoom |-> 100]
    /\ wfr = [pc |-> "idle"]
    /\ idb = [calls |-> 0]
    /\ cnt = [pc |-> "idle"]

Timers == {det.mutationTimeout, det.initialTimer, det.resourceTimer,
           det.pollTimer, det.globalTimer} \ {NoTimer}

\* Time passes while the call has not returned, but not beyond a timer that
\* is due: timers fire on time.
Tick ==
    /\ ~det.result.returned
    /\ now + TimeGrid <= Horizon
    /\ \A t \in Timers : t > now
    /\ now' = now + TimeGrid
    /\ UNCHANGED <<det, skeletonVisible, ctlVars, capVars, bndVars, dbVars, cntVars>>

\* The MutationObserver callback.
Mutation ==
    /\ det.observing
    /\ det' = [det EXCEPT !.lastMutationTime = now,
                          !.mutationTimeout = now + DOM_STABILITY_WAIT,
                          !.static = FALSE]
    /\ UNCHANGED <<now, skeletonVisible, ctlVars, capVars, bndVars, dbVars, cntVars>>

\* The quiet-period timer set by the last mutation.
MutationTimerFires ==
    /\ Due(det.mutationTimeout)
    /\ \E k \in 0..MaxResources, thr \in BOOLEAN :
         LET d == [det EXCEPT !.mutationTimeout = NoTimer, !.observing = FALSE]
         IN  det' = IF det.phase = "dom" THEN AfterDOM(d, k, skeletonVisible, thr)
                    ELSE d
    /\ UNCHANGED <<now, skeletonVisible, ctlVars, capVars, bndVars, dbVars, cntVars>>

\* The timer set when waitForDOMStability starts resolves the phase whatever
\* was observed meanwhile.
InitialTimerFires_unconditional ==
    /\ Due(det.initialTimer)
    /\ \E k \in 0..MaxResources, thr \in BOOLEAN :
         LET e == [det EXCEPT !.initialTimer = NoTimer, !.observing = FALSE,
                              !.mutationTimeout = NoTimer]
         IN  det' = IF det.phase = "dom" THEN AfterDOM(e, k, skeletonVisible, thr)
                    ELSE e
    /\ UNCHANGED <<now, skeletonVisible, ctlVars, capVars, bndVars, dbVars, cntVars>>

\* The timer set when waitForDOMStability starts.
InitialTimerFires ==
    /\ Due(det.initialTimer)
    /\ \E k \in 0..MaxResources, thr \in BOOLEAN :
         LET d == [det EXCEPT !.initialTimer = NoTimer]
         IN  det' = IF now - det.lastMutationTime >= DOM_STABILITY_WAIT
                    THEN LET e == [d EXCEPT !.observing = FALSE,
                                            !.mutationTimeout = NoTimer]
                         IN  IF det.phase = "dom"
                             THEN AfterDOM(e, k, skeletonVisible, thr)
                             ELSE e
                    ELSE d
    /\ UNCHANGED <<now, skeletonVisible, ctlVars, capVars, bndVars, dbVars, cntVars>>

\* One resource promise resolves; Promise.all resolves with the last one.
ResourceSettles(r, thr) ==
    LET d == [det EXCEPT !.pending = @ \ {r}]
    IN  det' = IF d.pending = {} THEN AfterResources(d, skeletonVisible, thr)
               ELSE d

\* A load or error event of a pending resource.
ResourceLoad ==
    /\ det.phase = "resources"
    /\ \E r \in det.pending, thr \in BOOLEAN : ResourceSettles(r, thr)
    /\ UNCHANGED <<now, skeletonVisible, ctlVars, capVars, bndVars, dbVars, cntVars>>

\* The per-resource timer.
ResourceTimeout ==
    /\ det.phase = "resources"
    /\ Due(det.resourceTimer)
    /\ \E r \in det.pending, thr \in BOOLEAN : ResourceSettles(r, thr)
    /\ UNCHANGED <<now, skeletonVisible, ctlVars, capVars, bndVars, dbVars, cntVars>>

\* checkSkeletons() run by its timer: an exception here is not caught by
\* anything, and the phase's promise is never settled.
SkeletonPoll ==
    /\ det.phase = "skeleton"
    /\ Due(det.pollTimer)
    /\ \E thr \in BOOLEAN :
         det' = IF thr
                THEN [det EXCEPT !.phase = "stuck", !.exception = "async",
                                 !.pollTimer = NoTimer]
                ELSE IF ~skeletonVisible
                        \/ now - det.skeletonStartTime >= SKELETON_MAX_WAIT
                THEN ChecksResolve([det EXCEPT !.checks.noSkeletons = TRUE,
                                               !.lastPollSaw = skeletonVisible,
                                               !.pollTimer = NoTimer],
                                   TRUE, "All checks passed")
                ELSE [det EXCEPT !.lastPollSaw = skeletonVisible,
                                 !.pollTimer = now + SKELETON_CHECK_INTERVAL]
    /\ UNCHANGED <<now, skeletonVisible, ctlVars, capVars, bndVars, dbVars, cntVars>>

\* The timer behind timeoutPromise.
GlobalTimeout ==
    /\ Due(det.globalTimer)
    /\ det' = Return([det EXCEPT !.globalTimer = NoTimer],
                     TRUE, "Max timeout reached", NoChecks)
    /\ UNCHANGED <<now, skeletonVisible, ctlVars, capVars, bndVars, dbVars, cntVars>>

\* The page shows or hides a loading indicator.
SkeletonToggle ==
    /\ skeletonVisible' = ~skeletonVisible
    /\ det' = [det EXCEPT !.static = FALSE]
    /\ UNCHANGED <<now, ctlVars, capVars, bndVars, dbVars, cntVars>>

NextDetector ==
    \/ Tick
    \/ Mutation
    \/ MutationTimerFires
    \/ InitialTimerFires
    \/ ResourceLoad
    \/ ResourceTimeout
    \/ SkeletonPoll
    \/ GlobalTimeout
    \/ SkeletonToggle


(***************************************************************************)
(* Part 2.  RecorderController                                             *)
(***************************************************************************)

\* The events handled: RECORD_STEP messages, tabs.onUpdated 'complete' and
\* tabs.onActivated.
MaxEvents == 2
\* The sessions of the database, the one of a recording that was going on
\* when the service worker restarted included.
MaxSessions == 1

Tabs == {1, 2}

\* An href is the sequence of its parts: <<>> is undefined.
NoHref == <<>>

\* The URL of the document the content script runs in: origin and path.
PageUrl == <<"https://site", "/page">>

\* The href attribute of the click target: none (not an anchor), a path on the
\* same origin, a javascript: URL, a fragment of the same page.
AnchorHrefs == {NoHref, <<"/next">>, <<"javascript:", "void(0)">>,
                <<"#", "top">>}

\* target.href, the href property of an anchor: the attribute resolved against
\* the document's URL.  A URL with a scheme is kept, a fragment is appended to
\* the page's URL, a path replaces the page's path.
hrefProperty(attr) ==
    IF attr = NoHref THEN NoHref
    ELSE IF attr[1] \in {"https://site", "javascript:"} THEN attr
    ELSE IF attr[1] = "#" THEN PageUrl \o attr
    ELSE <<PageUrl[1]>> \o attr

\* metadata.href of a click step.
Hrefs == {hrefProperty(a) : a \in AnchorHrefs}

\* The steps the content script sends: type and metadata.href.
StepInputs ==
    {<<"click", h>> : h \in Hrefs}
        \cup {<<t, NoHref>> : t \in {"change", "submit", "navigation"}}

startsWith(str, prefix) == Len(str) > 0 /\ str[1] = prefix

shouldCaptureVisual(stepType) ==
    stepType \in {"click", "submit", "navigation", "pageLoad"}

isNavigationEvent_noSubmit(type, href) ==
    type = "click" /\ href # NoHref
        /\ ~startsWith(href, "javascript:") /\ ~startsWith(href, "#")

isNavigationEvent_anyClick(type, href) ==
    type \in {"submit", "click"}

isNavigationEvent(type, href) ==
    IF type = "submit" THEN TRUE
    ELSE IF type = "click" /\ href # NoHref
              /\ ~startsWith(href, "javascript:") /\ ~startsWith(href, "#")
    THEN TRUE
    ELSE FALSE

\* The RecordingState saveState() writes and getState() returns.
RecordingState(recording, session, tabId, count) ==
    [status |-> IF recording THEN "recording" ELSE "idle",
     sessionId |-> session, currentTabId |-> tabId, stepCount |-> count]

\* What chrome.storage.session can hold when the service worker starts:
\* nothing, or the state saved by an earlier stop or an earlier recording.
StoredStates ==
    {<<>>, <<RecordingState(FALSE, 0, 0, 0)>>, <<RecordingState(TRUE, 1, 1, 0)>>}

IdleRec ==
    [pc |-> "idle", type |-> "", href |-> NoHref, sessionId |-> 0,
     timestamp |-> 0, firedAt |-> 0,
     mode |-> "none", waited |-> FALSE, shot |-> "none", added |-> "none",
     response |-> "none"]

TabStatuses == {"loading", "complete"}

IdleLoad ==
    [pc |-> "idle", tab |-> 0, status |-> "none", completeAt |-> 0,
     waited |-> FALSE,
     shot |-> "none", added |-> "none"]

\* db.addStep(into, step): the transaction is created in call order.  With a
\* null session id sessionsStore.get throws in the promise executor, after
\* stepsStore.add was requested: the promise rejects, the transaction goes on.
\* timestamp is the step's field; firedAt records when its event fired.
Transaction(kind, id, into, sid, visual, firedAt, timestamp) ==
    [kind |-> kind, id |-> id, into |-> into, sessionId |-> sid,
     visual |-> visual, firedAt |-> firedAt, timestamp |-> timestamp,
     orphan |-> into = 0]

ControllerConstructed ==
    /\ isRecording = FALSE
    /\ currentSessionId = 0
    /\ currentTabId = 0
    /\ stepCount = 0
    /\ storage \in StoredStates
    /\ restorePc = "pending"
    /\ nextSession = IF storage # <<>> /\ storage[1].sessionId # 0 THEN 2 ELSE 1
    /\ fired = 0
    /\ rec = [e \in 1..MaxEvents |-> IdleRec]
    /\ start = [pc |-> "idle", tab |-> 0, response |-> "none"]
    /\ stop = [pc |-> "idle"]
    /\ tabChange = [pc |-> "idle", tab |-> 0]
    /\ pageLoad = IdleLoad
    /\ tabEvents = 0
    /\ dbQueue = <<>>
    /\ dbSteps = <<>>
    \* the detector and the capture service are not part of this specification
    /\ now = startTime
    /\ skeletonVisible = FALSE
    /\ det = [phase |-> "idle"]
    /\ bgNow = 0
    /\ lastCaptureTime = 0
    /\ calls = <<>>
    /\ captures = <<>>
    /\ tab = [active |-> TRUE, zoom |-> 100]
    /\ wfr = [pc |-> "idle"]
    /\ idb = [calls |-> 0]
    /\ cnt = [pc |-> "idle"]

\* restoreState(): chrome.storage.session.get resolves.
RestoreComplete ==
    /\ restorePc = "pending"
    /\ restorePc' = "done"
    /\ IF storage # <<>>
       THEN /\ isRecording' = (storage[1].status = "recording")
            /\ currentSessionId' = storage[1].sessionId
            /\ currentTabId' = storage[1].currentTabId
            /\ stepCount' = storage[1].stepCount
       ELSE UNCHANGED ctlState
    /\ UNCHANGED <<storage, nextSession, fired, rec, start, stop, tabChange,
                   pageLoad, tabEvents, dbQueue, dbSteps, detVars, capVars, bndVars, dbVars, cntVars>>

\* handleRecordStep up to its first await, for the next event of the tab.
RecordStep(e, type, href) ==
    /\ e = fired + 1
    /\ fired + tabEvents < MaxEvents
    /\ fired' = e
    /\ LET r == [IdleRec EXCEPT !.type = type, !.href = href,
                               !.timestamp = bgNow, !.firedAt = bgNow] IN
       IF ~isRecording \/ currentSessionId = 0
       THEN /\ rec' = [rec EXCEPT ![e] =
                         [IdleRec EXCEPT !.pc = "done", !.response = "notRecording"]]
            /\ UNCHANGED dbQueue
       ELSE LET q == [r EXCEPT !.sessionId = currentSessionId] IN
            IF shouldCaptureVisual(type) /\ currentTabId # 0
            THEN /\ rec' = [rec EXCEPT ![e] =
                              IF isNavigationEvent(type, href)
                              THEN [q EXCEPT !.pc = "capture", !.mode = "immediate"]
                              ELSE [q EXCEPT !.pc = "readiness"]]
                 /\ UNCHANGED dbQueue
            ELSE /\ rec' = [rec EXCEPT ![e] = [q EXCEPT !.pc = "add"]]
                 /\ dbQueue' = Append(dbQueue,
                        Transaction("rec", e, currentSessionId, currentSessionId, FALSE,
                                    bgNow, bgNow))
    /\ UNCHANGED <<ctlState, storage, restorePc, nextSession, start, stop,
                   tabChange, pageLoad, tabEvents, dbSteps, detVars, capVars, bndVars, dbVars, cntVars>>

\* waitForPageReadiness resolves; captureTabScreenshot(tab, false) is called.
ReadinessResolves(e) ==
    /\ rec[e].pc = "readiness"
    /\ rec' = [rec EXCEPT ![e].pc = "capture", ![e].mode = "normal",
                          ![e].waited = TRUE]
    /\ UNCHANGED <<ctlState, storage, restorePc, nextSession, fired, start, stop,
                   tabChange, pageLoad, tabEvents, dbQueue, dbSteps, detVars, capVars, bndVars, dbVars, cntVars>>

\* A handler that returned: its locals are gone, its outcome is what the
\* caller and the log saw.
Returned(shot, added, response) ==
    [IdleRec EXCEPT !.pc = "done", !.shot = shot, !.added = added,
                    !.response = response]

\* A failed capture ends the handler with a failure, as for a manual capture.
AfterCapture_failing(e, outcome) ==
    /\ rec' = [rec EXCEPT ![e] =
                 IF currentSessionId = 0 \/ outcome = "null"
                 THEN Returned(outcome, "none", "error")
                 ELSE [rec[e] EXCEPT !.pc = "add", !.shot = outcome]]
    /\ dbQueue' = IF outcome = "null" THEN dbQueue
                  ELSE Append(dbQueue,
                         Transaction("rec", e, currentSessionId, rec[e].sessionId,
                                     TRUE, rec[e].firedAt, rec[e].timestamp))

\* The handler after captureTabScreenshot resolved with a data URL ("ok") or
\* null; captureTabScreenshot catches its own errors.  db.addStep is called
\* with the session id of this moment.
AfterCapture(e, outcome) ==
    LET t == Transaction("rec", e, currentSessionId, rec[e].sessionId,
                         outcome = "ok", rec[e].firedAt, rec[e].timestamp)
    IN  /\ rec' = [rec EXCEPT ![e] =
                     IF currentSessionId = 0
                     THEN Returned(outcome, "fail", "error")
                     ELSE [rec[e] EXCEPT !.pc = "add", !.shot = outcome]]
        /\ dbQueue' = Append(dbQueue, t)

CaptureResolves(e) ==
    /\ rec[e].pc = "capture"
    /\ \E outcome \in {"ok", "null"} : AfterCapture(e, outcome)
    /\ UNCHANGED <<ctlState, storage, restorePc, nextSession, fired, start, stop,
                   tabChange, pageLoad, tabEvents, dbSteps, detVars, capVars, bndVars, dbVars, cntVars>>

Persisted(t) ==
    [kind |-> t.kind, id |-> t.id, into |-> t.into, sessionId |-> t.sessionId,
     visual |-> t.visual, firedAt |-> t.firedAt, timestamp |-> t.timestamp]

\* After `await db.addStep(...)`: this.stepCount++ and saveState().
Counted ==
    /\ stepCount' = stepCount + 1
    /\ storage' = <<RecordingState(isRecording, currentSessionId, currentTabId,
                                   stepCount + 1)>>
    /\ UNCHANGED <<isRecording, currentSessionId, currentTabId>>

\* The step is counted before it is saved.
AddStepFailed_counted(e) ==
    /\ rec' = [rec EXCEPT ![e] = Returned(rec[e].shot, "fail", "error")]
    /\ stepCount' = stepCount + 1
    /\ UNCHANGED <<isRecording, currentSessionId, currentTabId, storage>>

\* The handler of a step whose db.addStep rejected: the catch block.
AddStepFailed(e) ==
    /\ rec' = [rec EXCEPT ![e] = Returned(rec[e].shot, "fail", "error")]
    /\ UNCHANGED <<ctlState, storage>>

\* The oldest IndexedDB transaction completes or fails; the promise of its
\* addStep settles and the caller goes on.
DbCommit ==
    /\ dbQueue # <<>>
    /\ LET t == Head(dbQueue) IN
       \E ok \in BOOLEAN :
         /\ dbQueue' = Tail(dbQueue)
         /\ dbSteps' = IF ok THEN Append(dbSteps, Persisted(t)) ELSE dbSteps
         /\ IF t.orphan
            THEN UNCHANGED <<ctlState, storage, rec, start, pageLoad>>
            ELSE IF t.kind = "rec"
            THEN /\ IF ok
                    THEN /\ rec' = [rec EXCEPT ![t.id] =
                                          Returned(rec[t.id].shot, "ok", "ok")]
                         /\ Counted
                    ELSE AddStepFailed(t.id)
                 /\ UNCHANGED <<start, pageLoad>>
            ELSE IF t.kind = "load"
            THEN /\ pageLoad' = [pageLoad EXCEPT !.pc = "idle",
                                    !.added = IF ok THEN "ok" ELSE "fail"]
                 /\ IF ok THEN Counted ELSE UNCHANGED <<ctlState, storage>>
                 /\ UNCHANGED <<rec, start>>
            ELSE /\ start' = [start EXCEPT !.pc = "ensure"]
                 /\ IF ok THEN /\ stepCount' = stepCount + 1
                               /\ UNCHANGED <<isRecording, currentSessionId,
                                              currentTabId, storage>>
                          ELSE UNCHANGED <<ctlState, storage>>
                 /\ UNCHANGED <<rec, pageLoad>>
    /\ UNCHANGED <<restorePc, nextSession, fired, stop, tabChange, tabEvents,
                   detVars, capVars, bndVars, dbVars, cntVars>>

\* stopRecording() up to its first await.
StopRecordingCall ==
    /\ stop.pc = "idle"
    /\ IF ~isRecording
       THEN UNCHANGED <<ctlState, stop>>
       ELSE IF currentTabId # 0
       THEN /\ stop' = [pc |-> "emit"]
            /\ UNCHANGED ctlState
       ELSE /\ stop' = [pc |-> "badge"]
            /\ isRecording' = FALSE
            /\ currentSessionId' = 0
            /\ currentTabId' = 0
            /\ stepCount' = 0
    /\ UNCHANGED <<storage, restorePc, nextSession, fired, rec, start, tabChange,
                   pageLoad, tabEvents, dbQueue, dbSteps, detVars, capVars, bndVars, dbVars, cntVars>>

\* The STOP_RECORDING command.
StopCommand == StopRecordingCall

\* chrome.tabs.onRemoved for the recorded tab.
TabRemoved ==
    /\ isRecording
    /\ \E t \in Tabs : t = currentTabId
    /\ StopRecordingCall

\* stopRecording() after the STOP_RECORDING message to the tab was sent.
StopAfterEmit ==
    /\ stop.pc = "emit"
    /\ stop' = [pc |-> "badge"]
    /\ isRecording' = FALSE
    /\ currentSessionId' = 0
    /\ currentTabId' = 0
    /\ stepCount' = 0
    /\ UNCHANGED <<storage, restorePc, nextSession, fired, rec, start, tabChange,
                   pageLoad, tabEvents, dbQueue, dbSteps, detVars, capVars, bndVars, dbVars, cntVars>>

\* stopRecording() after BadgeManager.setRecording(false): saveState().
StopSave ==
    /\ stop.pc = "badge"
    /\ stop' = [pc |-> "idle"]
    /\ storage' = <<RecordingState(isRecording, currentSessionId, currentTabId,
                                   stepCount)>>
    /\ UNCHANGED <<ctlState, restorePc, nextSession, fired, rec, start, tabChange,
                   pageLoad, tabEvents, dbQueue, dbSteps, detVars, capVars, bndVars, dbVars, cntVars>>

\* The START_RECORDING command: handleStartRecording and the guards of
\* startRecording; then db.init and db.createSession are awaited.
StartCommand ==
    /\ start.pc = "idle"
    /\ nextSession <= MaxSessions
    /\ \E t \in Tabs \cup {0}, valid \in BOOLEAN :
         start' = IF t = 0 THEN [pc |-> "idle", tab |-> 0, response |-> "noTab"]
                  ELSE IF isRecording
                  THEN [pc |-> "idle", tab |-> 0, response |-> "already"]
                  ELSE IF ~valid
                  THEN [pc |-> "idle", tab |-> 0, response |-> "restricted"]
                  ELSE [pc |-> "create", tab |-> t, response |-> "none"]
    /\ UNCHANGED <<ctlState, storage, restorePc, nextSession, fired, rec, stop,
                   tabChange, pageLoad, tabEvents, dbQueue, dbSteps, detVars, capVars, bndVars, dbVars, cntVars>>

\* db.createSession resolved: the recording state is set.
StartCreated ==
    /\ start.pc = "create"
    /\ start' = [start EXCEPT !.pc = "initial"]
    /\ currentSessionId' = nextSession
    /\ currentTabId' = start.tab
    /\ isRecording' = TRUE
    /\ stepCount' = 0
    /\ nextSession' = nextSession + 1
    /\ UNCHANGED <<storage, restorePc, fired, rec, stop, tabChange, pageLoad,
                   tabEvents, dbQueue, dbSteps, detVars, capVars, bndVars, dbVars, cntVars>>

\* captureInitialScreenshot(): the capture resolved; the initial step is saved
\* when there is a screenshot and a session.
StartInitialShot ==
    /\ start.pc = "initial"
    /\ \E outcome \in {"ok", "null"} :
         IF outcome = "ok" /\ currentSessionId # 0
         THEN /\ start' = [start EXCEPT !.pc = "initadd"]
              /\ dbQueue' = Append(dbQueue,
                     Transaction("init", 0, currentSessionId, currentSessionId, TRUE,
                                 bgNow, bgNow))
         ELSE /\ start' = [start EXCEPT !.pc = "ensure"]
              /\ UNCHANGED dbQueue
    /\ UNCHANGED <<ctlState, storage, restorePc, nextSession, fired, rec, stop,
                   tabChange, pageLoad, tabEvents, dbSteps, detVars, capVars, bndVars, dbVars, cntVars>>

\* ensureContentScriptLoaded() threw, or it resolved and the START_RECORDING
\* message and the badge settled: saveState().
StartSave ==
    /\ start.pc = "ensure"
    /\ \E ok \in BOOLEAN :
         IF ok
         THEN /\ start' = [start EXCEPT !.pc = "idle", !.response = "ok"]
              /\ storage' = <<RecordingState(isRecording, currentSessionId,
                                             currentTabId, stepCount)>>
         ELSE /\ start' = [start EXCEPT !.pc = "idle", !.response = "error"]
              /\ UNCHANGED storage
    /\ UNCHANGED <<ctlState, restorePc, nextSession, fired, rec, stop, tabChange,
                   pageLoad, tabEvents, dbQueue, dbSteps, detVars, capVars, bndVars, dbVars, cntVars>>

\* chrome.tabs.onActivated: handleTabChange up to its first await.
TabActivated ==
    /\ tabChange.pc = "idle"
    /\ fired + tabEvents < MaxEvents
    /\ isRecording
    /\ tabEvents' = tabEvents + 1
    /\ \E t \in Tabs :
         IF currentTabId # 0 /\ currentTabId # t
         THEN /\ tabChange' = [pc |-> "emit", tab |-> t]
              /\ UNCHANGED currentTabId
         ELSE /\ tabChange' = [pc |-> "ensure", tab |-> t]
              /\ currentTabId' = t
    /\ UNCHANGED <<isRecording, currentSessionId, stepCount, storage, restorePc,
                   nextSession, fired, rec, start, stop, pageLoad, dbQueue,
                   dbSteps, detVars, capVars, bndVars, dbVars, cntVars>>

\* handleTabChange after the STOP_RECORDING message to the old tab.
TabChangeAfterEmit ==
    /\ tabChange.pc = "emit"
    /\ tabChange' = [tabChange EXCEPT !.pc = "ensure"]
    /\ currentTabId' = tabChange.tab
    /\ UNCHANGED <<isRecording, currentSessionId, stepCount, storage, restorePc,
                   nextSession, fired, rec, start, stop, pageLoad, tabEvents, dbQueue,
                   dbSteps, detVars, capVars, bndVars, dbVars, cntVars>>

\* handleTabChange after ensureContentScriptLoaded (which may throw) and the
\* START_RECORDING message: saveState().
TabChangeSave ==
    /\ tabChange.pc = "ensure"
    /\ tabChange' = [pc |-> "idle", tab |-> 0]
    /\ \E ok \in BOOLEAN :
         storage' = IF ok THEN <<RecordingState(isRecording, currentSessionId,
                                                currentTabId, stepCount)>>
                    ELSE storage
    /\ UNCHANGED <<ctlState, restorePc, nextSession, fired, rec, start, stop,
                   pageLoad, tabEvents, dbQueue, dbSteps, detVars, capVars, bndVars, dbVars, cntVars>>

\* chrome.tabs.onUpdated(tabId, changeInfo, tab) while recording: the handler
\* goes on only for the recorded tab, status 'complete' and a URL that is not
\* restricted.  Then the 100 ms delay and ensureContentScriptLoaded are
\* awaited.
TabUpdatedComplete ==
    /\ pageLoad.pc = "idle"
    /\ fired + tabEvents < MaxEvents
    /\ isRecording
    /\ currentTabId # 0
    /\ tabEvents' = tabEvents + 1
    /\ \E tabId \in Tabs, status \in TabStatuses, valid \in BOOLEAN :
         pageLoad' = IF tabId = currentTabId /\ status = "complete" /\ valid
                     THEN [IdleLoad EXCEPT !.pc = "ensure", !.tab = tabId,
                                           !.status = status,
                                           !.completeAt = bgNow]
                     ELSE IdleLoad
    /\ UNCHANGED <<ctlState, storage, restorePc, nextSession, fired, rec, start,
                   stop, tabChange, dbQueue, dbSteps, detVars, capVars, bndVars, dbVars, cntVars>>

\* The delay before ensureContentScriptLoaded in the onUpdated listener.
PAGE_LOAD_DELAY == 100

\* The service worker's clock once that delay has elapsed: the other awaits
\* of the controller have no least duration and are counted as taking none.
DelayElapsed ==
    IF bgNow < pageLoad.completeAt + PAGE_LOAD_DELAY
    THEN pageLoad.completeAt + PAGE_LOAD_DELAY
    ELSE bgNow

\* The screenshot is requested as soon as the content script is ensured.
PageLoadEnsured_noWait ==
    /\ pageLoad.pc = "ensure"
    /\ \E ok \in BOOLEAN :
         pageLoad' = IF ok /\ isRecording /\ currentSessionId # 0
                        /\ pageLoad.tab = currentTabId
                     THEN [pageLoad EXCEPT !.pc = "capture"]
                     ELSE IdleLoad
    /\ bgNow' = DelayElapsed
    /\ UNCHANGED <<ctlState, storage, restorePc, nextSession, fired, rec, start,
                   stop, tabChange, tabEvents, dbQueue, dbSteps, detVars,
                   lastCaptureTime, calls, captures, tab, bndVars, dbVars, cntVars>>

\* ensureContentScriptLoaded resolved or threw; capturePageLoadStep checks the
\* recording state and the tab again and awaits waitForPageReadiness.
PageLoadEnsured ==
    /\ pageLoad.pc = "ensure"
    /\ \E ok \in BOOLEAN :
         pageLoad' = IF ok /\ isRecording /\ currentSessionId # 0
                        /\ pageLoad.tab = currentTabId
                     THEN [pageLoad EXCEPT !.pc = "readiness"]
                     ELSE IdleLoad
    /\ bgNow' = DelayElapsed
    /\ UNCHANGED <<ctlState, storage, restorePc, nextSession, fired, rec, start,
                   stop, tabChange, tabEvents, dbQueue, dbSteps, detVars,
                   lastCaptureTime, calls, captures, tab, bndVars, dbVars, cntVars>>

\* waitForPageReadiness resolved; captureTabScreenshot(tabId) is called.
PageLoadReady ==
    /\ pageLoad.pc = "readiness"
    /\ pageLoad' = [pageLoad EXCEPT !.pc = "capture", !.waited = TRUE]
    /\ UNCHANGED <<ctlState, storage, restorePc, nextSession, fired, rec, start,
                   stop, tabChange, tabEvents, dbQueue, dbSteps, detVars, capVars, bndVars, dbVars, cntVars>>

\* capturePageLoadStep after the capture resolved: the step is created with
\* the session id of this moment and db.addStep is called.
AfterPageLoadCapture(outcome) ==
    /\ pageLoad' = IF currentSessionId = 0
                   THEN [pageLoad EXCEPT !.pc = "idle", !.shot = outcome,
                                         !.added = "fail"]
                   ELSE [pageLoad EXCEPT !.pc = "add", !.shot = outcome]
    /\ dbQueue' = Append(dbQueue,
           Transaction("load", 0, currentSessionId, currentSessionId,
                       outcome = "ok", pageLoad.completeAt, bgNow))

PageLoadCaptured ==
    /\ pageLoad.pc = "capture"
    /\ \E outcome \in {"ok", "null"} : AfterPageLoadCapture(outcome)
    /\ UNCHANGED <<ctlState, storage, restorePc, nextSession, fired, rec, start,
                   stop, tabChange, tabEvents, dbSteps, detVars, capVars, bndVars, dbVars, cntVars>>

NextController ==
    \/ RestoreComplete
    \/ \E in \in StepInputs : RecordStep(fired + 1, in[1], in[2])
    \/ \E e \in 1..MaxEvents : ReadinessResolves(e)
    \/ \E e \in 1..MaxEvents : CaptureResolves(e)
    \/ DbCommit
    \/ StopCommand
    \/ TabRemoved
    \/ StopAfterEmit
    \/ StopSave
    \/ StartCommand
    \/ StartCreated
    \/ StartInitialShot
    \/ StartSave
    \/ TabActivated
    \/ TabChangeAfterEmit
    \/ TabChangeSave
    \/ TabUpdatedComplete
    \/ PageLoadEnsured
    \/ PageLoadReady
    \/ PageLoadCaptured

(***************************************************************************)
(* Part 3.  VisualCaptureService.captureTabScreenshot                      *)
(***************************************************************************)

MIN_CAPTURE_INTERVAL == 500
ZOOM_REFLOW_WAIT == 300
TAB_SWITCH_WAIT == 100

\* The captureTabScreenshot calls made.
MaxCalls == 2
\* How long the service is watched.
CaptureSpan == 1500

\* Date.now() when the first call can arrive: lastCaptureTime starts at 0 and
\* the clock is far beyond MIN_CAPTURE_INTERVAL, so the first call never waits.
ServiceStart == MIN_CAPTURE_INTERVAL

\* Every sleep of the service is a multiple of the tab switch wait.
CaptureGrid == TAB_SWITCH_WAIT

IdleCall ==
    [pc |-> "idle", immediate |-> FALSE, wake |-> NoTimer, originalZoom |-> 0,
     result |-> "none"]

ServiceConstructed ==
    /\ bgNow = ServiceStart
    /\ lastCaptureTime = 0
    /\ calls = [c \in 1..MaxCalls |-> IdleCall]
    /\ captures = <<>>
    /\ tab \in [active : BOOLEAN, zoom : {100, 150}]
    /\ wfr = [pc |-> "idle"]
    /\ idb = [calls |-> 0]
    /\ cnt = [pc |-> "idle"]
    \* the detector and the controller are not part of this specification
    /\ now = startTime
    /\ skeletonVisible = FALSE
    /\ det = [phase |-> "idle"]
    /\ isRecording = FALSE
    /\ currentSessionId = 0
    /\ currentTabId = 0
    /\ stepCount = 0
    /\ storage = <<>>
    /\ restorePc = "done"
    /\ nextSession = 1
    /\ fired = 0
    /\ rec = <<>>
    /\ start = [pc |-> "idle"]
    /\ stop = [pc |-> "idle"]
    /\ tabChange = [pc |-> "idle"]
    /\ pageLoad = [pc |-> "idle"]
    /\ tabEvents = 0
    /\ dbQueue = <<>>
    /\ dbSteps = <<>>

TickCapture ==
    /\ bgNow + CaptureGrid <= ServiceStart + CaptureSpan
    /\ \A c \in 1..MaxCalls : calls[c].wake = NoTimer \/ calls[c].wake > bgNow
    /\ bgNow' = bgNow + CaptureGrid
    /\ UNCHANGED <<lastCaptureTime, calls, captures, tab, detVars, ctlVars, bndVars, dbVars, cntVars>>

\* captureTabScreenshot(tabId, immediate) up to its first await.
CaptureCall(c, immediate) ==
    /\ calls[c].pc = "idle"
    /\ \A b \in 1..(c - 1) : calls[b].pc # "idle"
    /\ LET timeSinceLastCapture == bgNow - lastCaptureTime IN
       IF timeSinceLastCapture < MIN_CAPTURE_INTERVAL
       THEN /\ calls' = [calls EXCEPT ![c] =
                           [IdleCall EXCEPT !.pc = "sleep", !.immediate = immediate,
                              !.wake = bgNow + (MIN_CAPTURE_INTERVAL
                                                - timeSinceLastCapture)]]
            /\ UNCHANGED lastCaptureTime
       ELSE /\ calls' = [calls EXCEPT ![c] =
                           [IdleCall EXCEPT !.pc = "get", !.immediate = immediate]]
            /\ lastCaptureTime' = bgNow
    /\ UNCHANGED <<bgNow, captures, tab, detVars, ctlVars, bndVars, dbVars, cntVars>>

\* The rate-limit sleep is over: lastCaptureTime = Date.now(), then
\* chrome.tabs.get is awaited.
CaptureWake(c) ==
    /\ calls[c].pc = "sleep"
    /\ calls[c].wake <= bgNow
    /\ calls' = [calls EXCEPT ![c].pc = "get", ![c].wake = NoTimer]
    /\ lastCaptureTime' = bgNow
    /\ UNCHANGED <<bgNow, captures, tab, detVars, ctlVars, bndVars, dbVars, cntVars>>

\* chrome.tabs.captureVisibleTab is invoked.
InvokePrimitive(c) ==
    /\ captures' = Append(captures, bgNow)
    /\ calls' = [calls EXCEPT ![c].pc = "capture", ![c].wake = NoTimer]

\* chrome.tabs.get resolved or threw.  A tab that is not active is activated
\* first, unless the capture is immediate.
CaptureGotTab(c) ==
    /\ calls[c].pc = "get"
    /\ \E ok \in BOOLEAN :
         IF ~ok
         THEN /\ calls' = [calls EXCEPT ![c].pc = "done", ![c].result = "null"]
              /\ UNCHANGED tab
         ELSE IF ~calls[c].immediate /\ ~tab.active
         THEN /\ calls' = [calls EXCEPT ![c].pc = "switch",
                                        ![c].wake = bgNow + TAB_SWITCH_WAIT]
              /\ tab' = [tab EXCEPT !.active = TRUE]
         ELSE /\ calls' = [calls EXCEPT ![c].pc = "zoom"]
              /\ UNCHANGED tab
    /\ UNCHANGED <<bgNow, lastCaptureTime, captures, detVars, ctlVars, bndVars, dbVars, cntVars>>

\* The wait after the tab switch is over: chrome.tabs.getZoom is awaited.
CaptureSwitched(c) ==
    /\ calls[c].pc = "switch"
    /\ calls[c].wake <= bgNow
    /\ calls' = [calls EXCEPT ![c].pc = "zoom", ![c].wake = NoTimer]
    /\ UNCHANGED <<bgNow, lastCaptureTime, captures, tab, detVars, ctlVars, bndVars, dbVars, cntVars>>

\* A zoomed tab is reset for every capture.
CaptureGotZoom_always(c) ==
    /\ calls[c].pc = "zoom"
    /\ IF tab.zoom # 100
       THEN /\ calls' = [calls EXCEPT ![c].pc = "reflow",
                                      ![c].originalZoom = tab.zoom,
                                      ![c].wake = bgNow + ZOOM_REFLOW_WAIT]
            /\ tab' = [tab EXCEPT !.zoom = 100]
            /\ UNCHANGED captures
       ELSE /\ captures' = Append(captures, bgNow)
            /\ calls' = [calls EXCEPT ![c].pc = "capture",
                                      ![c].originalZoom = tab.zoom]
            /\ UNCHANGED tab
    /\ UNCHANGED <<bgNow, lastCaptureTime, detVars, ctlVars, bndVars, dbVars, cntVars>>

\* chrome.tabs.getZoom resolved: a zoomed tab is reset to 100% and given time
\* to reflow, unless the capture is immediate; otherwise the capture is taken.
CaptureGotZoom(c) ==
    /\ calls[c].pc = "zoom"
    /\ IF ~calls[c].immediate /\ tab.zoom # 100
       THEN /\ calls' = [calls EXCEPT ![c].pc = "reflow",
                                      ![c].originalZoom = tab.zoom,
                                      ![c].wake = bgNow + ZOOM_REFLOW_WAIT]
            /\ tab' = [tab EXCEPT !.zoom = 100]
            /\ UNCHANGED captures
       ELSE /\ captures' = Append(captures, bgNow)
            /\ calls' = [calls EXCEPT ![c].pc = "capture",
                                      ![c].originalZoom = tab.zoom]
            /\ UNCHANGED tab
    /\ UNCHANGED <<bgNow, lastCaptureTime, detVars, ctlVars, bndVars, dbVars, cntVars>>

\* The reflow wait is over: the capture is taken.
CaptureReflowed(c) ==
    /\ calls[c].pc = "reflow"
    /\ calls[c].wake <= bgNow
    /\ InvokePrimitive(c)
    /\ UNCHANGED <<bgNow, lastCaptureTime, tab, detVars, ctlVars, bndVars, dbVars, cntVars>>

\* captureVisibleTab resolved or threw; the finally block restores the zoom
\* of a capture that is not immediate.
CaptureDone(c) ==
    /\ calls[c].pc = "capture"
    /\ \E ok \in BOOLEAN :
         calls' = [calls EXCEPT ![c].pc = "done",
                                ![c].result = IF ok THEN "ok" ELSE "null"]
    /\ tab' = IF ~calls[c].immediate /\ calls[c].originalZoom # 100
              THEN [tab EXCEPT !.zoom = calls[c].originalZoom]
              ELSE tab
    /\ UNCHANGED <<bgNow, lastCaptureTime, captures, detVars, ctlVars, bndVars, dbVars, cntVars>>

NextCapture ==
    \/ TickCapture
    \/ \E c \in 1..MaxCalls, immediate \in BOOLEAN : CaptureCall(c, immediate)
    \/ \E c \in 1..MaxCalls : CaptureWake(c)
    \/ \E c \in 1..MaxCalls : CaptureGotTab(c)
    \/ \E c \in 1..MaxCalls : CaptureSwitched(c)
    \/ \E c \in 1..MaxCalls : CaptureGotZoom(c)
    \/ \E c \in 1..MaxCalls : CaptureReflowed(c)
    \/ \E c \in 1..MaxCalls : CaptureDone(c)

(***************************************************************************)
(* The specifications                                                      *)
(***************************************************************************)

SpecDetector ==
    DetectorStarted /\ [][NextDetector]_vars

SpecController ==
    ControllerConstructed /\ [][NextController]_vars

SpecCapture ==
    ServiceConstructed /\ [][NextCapture]_vars

(***************************************************************************)
(* Claims about detectPageReadiness (SpecDetector)                         *)
(***************************************************************************)

\* C1: every run of the detector returns a state no later than the global
\* maximum timeout, also on a page whose DOM never stays quiet: while the
\* call has not returned the clock has not passed startTime + the maximum
\* timeout, and the duration it returns is at most the maximum timeout.
C1_ResolvesWithinMaxTimeout ==
    /\ ~det.result.returned => now - startTime <= PAGE_LOAD_MAX_TIMEOUT
    /\ det.result.returned => det.result.duration <= PAGE_LOAD_MAX_TIMEOUT

\* C1 witness: the detector returned at the maximum timeout while the DOM
\* phase was still waiting for a quiet period after a recent mutation.
C1_ReturnedOnRestlessPage ==
    /\ det.result.returned
    /\ det.result.duration = PAGE_LOAD_MAX_TIMEOUT
    /\ det.phase = "dom"
    /\ ~det.checks.domStable
    /\ det.mutationTimeout # NoTimer
    /\ now - det.lastMutationTime < DOM_STABILITY_WAIT

\* C9: when the global timeout decides the result, the returned checks are
\* exactly the phases completed by then.
C9_TimeoutReportsCompletedPhases ==
    [][(~det.result.returned /\ det'.result.returned
            /\ det'.result.reason = "Max timeout reached")
        => det'.result.checks = det.checks]_vars

\* C10: a call in which an exception was raised returns a state that is not
\* ready and carries the detection error.
C10_ExceptionYieldsNotReady ==
    [][(~det.result.returned /\ det'.result.returned /\ det'.exception # "none")
        => (~det'.result.isReady /\ det'.result.reason = "Detection error")]_vars

\* C12: every wait of the detector ends by a cap of its own: the DOM
\* stability wait before the global timeout has to end it, the resource wait
\* within RESOURCE_LOAD_TIMEOUT of its start, the skeleton poll within
\* SKELETON_MAX_WAIT of its start.
C12_EveryWaitCapped ==
    /\ det.phase = "dom" => now - startTime < PAGE_LOAD_MAX_TIMEOUT
    /\ det.phase = "resources"
         => now - det.resourceStartTime <= RESOURCE_LOAD_TIMEOUT
    /\ det.phase = "skeleton"
         => now - det.skeletonStartTime <= SKELETON_MAX_WAIT

\* C13: the DOM stability phase resolves only when no mutation was observed
\* during the preceding DOM_STABILITY_WAIT, and when no mutation was observed
\* at all it resolves DOM_STABILITY_WAIT after the start.
C13_ResolvesAfterQuietPeriod ==
    [][(~det.checks.domStable /\ det'.checks.domStable)
        => /\ now - det.lastMutationTime >= DOM_STABILITY_WAIT
           /\ det.mutationTimeout = NoTimer
                => now = startTime + DOM_STABILITY_WAIT]_vars

\* C13 witness: a mutation was observed after the start, and the phase
\* resolved one quiet period after the last one, into the resource phase.
C13_ResolvedAfterLastMutation ==
    /\ det.checks.domStable
    /\ det.lastMutationTime > startTime
    /\ det.phase = "resources"
    /\ det.resourceStartTime = det.lastMutationTime + DOM_STABILITY_WAIT

\* C14: the resource phase is over within RESOURCE_LOAD_TIMEOUT of its
\* start, however many resources are pending.
C14_ResourcePhaseCapped ==
    det.phase = "resources"
        => /\ det.resourceStartTime # NoTimer
           /\ now - det.resourceStartTime <= RESOURCE_LOAD_TIMEOUT

\* C14 witness: at the cap all the resources found pending are still pending,
\* none having fired load or error.
C14_AllResourcesStuckAtCap ==
    /\ det.phase = "resources"
    /\ now = det.resourceStartTime + RESOURCE_LOAD_TIMEOUT
    /\ Cardinality(det.pending) = MaxResources

\* C15: the detector returns "All checks passed" only at a moment when no
\* loading indicator is visible or the skeleton phase has lasted
\* SKELETON_MAX_WAIT.
C15_NoReadyWhileSkeletonVisible ==
    [][(/\ ~det.result.returned
        /\ det'.result.returned
        /\ det'.result.reason = "All checks passed")
        => /\ det'.result.checks.noSkeletons
           /\ \/ ~skeletonVisible
              \/ /\ det.phase = "skeleton"
                 /\ now - det.skeletonStartTime >= SKELETON_MAX_WAIT]_vars

\* C15 witness: the skeleton phase found a loading indicator, polled until
\* it was gone, before the phase's maximum wait, and the detector returned
\* "All checks passed" at that poll.
C15_ReturnedWhenSpinnerGone ==
    /\ det.result.returned
    /\ det.result.reason = "All checks passed"
    /\ ~skeletonVisible
    /\ now = startTime + det.result.duration
    /\ now - det.skeletonStartTime > SKELETON_CHECK_INTERVAL
    /\ now - det.skeletonStartTime < SKELETON_MAX_WAIT

\* C16: on a static document (no mutation, no pending resource, no loading
\* indicator, no exception) the detector has returned once the timer armed
\* at the start has fired, with isReady and all three checks true, strictly
\* before the global timeout.
C16_StaticDocumentReady ==
    (det.static /\ det.exception = "none")
        => /\ det.initialTimer = NoTimer => det.result.returned
           /\ det.result.returned
                => /\ det.result.isReady
                   /\ det.result.checks = AllChecks
                   /\ det.result.duration < PAGE_LOAD_MAX_TIMEOUT

\* C16 witness: the detector returned on a static document.
C16_StaticDocumentReturned ==
    /\ det.static
    /\ det.exception = "none"
    /\ det.result.returned
    /\ det.result.reason = "All checks passed"
    /\ det.result.duration = DOM_STABILITY_WAIT

\* C17: the phases run in the order DOM stability, resources, skeletons:
\* each phase is entered with exactly the earlier checks set, and in the
\* checks of the pipeline and of every returned state noSkeletons implies
\* resourcesLoaded, which implies domStable.
C17_PhasesInOrder ==
    /\ det.phase = "dom" => det.checks = NoChecks
    /\ det.phase = "resources"
         => det.checks = [NoChecks EXCEPT !.domStable = TRUE]
    /\ det.phase \in {"skeleton", "stuck"}
         => det.checks = [AllChecks EXCEPT !.noSkeletons = FALSE]
    /\ \A c \in {det.checks, det.result.checks} :
         /\ c.noSkeletons => c.resourcesLoaded
         /\ c.resourcesLoaded => c.domStable

\* C17 witness: the global timeout interrupted the resource phase, which had
\* followed the DOM phase.
C17_TimeoutDuringResources ==
    /\ det.result.returned
    /\ det.result.reason = "Max timeout reached"
    /\ det.phase = "resources"
    /\ det.checks.domStable

(***************************************************************************)
(* Claims about RecorderController (SpecController)                        *)
(***************************************************************************)

\* A navigation-triggering step: a form submit, or a click on a link with a
\* real href.
NavigationTriggering(type, href) ==
    \/ type = "submit"
    \/ /\ type = "click"
       /\ href \notin {NoHref}
       /\ href[1] \notin {"javascript:", "#"}

\* The handlers that have called captureTabScreenshot.
CaptureInvoked(e) ==
    rec[e].pc = "capture" \/ (rec[e].pc = "add" /\ rec[e].shot # "none")

\* C2: the steps of a session are appended in the order their events fired.
C2_StepsPersistedInEventOrder ==
    \A i, j \in 1..Len(dbSteps) :
        (/\ i < j
         /\ dbSteps[i].kind = "rec" /\ dbSteps[j].kind = "rec"
         /\ dbSteps[i].into # 0 /\ dbSteps[i].into = dbSteps[j].into)
        => dbSteps[i].id < dbSteps[j].id

\* C4: a navigation-triggering step never waits for page readiness, and its
\* screenshot is taken in immediate mode.
C4_NavigationStepCapturedImmediately ==
    \A e \in 1..MaxEvents :
        NavigationTriggering(rec[e].type, rec[e].href)
        => /\ rec[e].pc # "readiness"
           /\ ~rec[e].waited
           /\ CaptureInvoked(e) => rec[e].mode = "immediate"

\* C4 witness: the capture of a click on <a href="/next"> is in flight, in
\* immediate mode.
C4_LinkClickCapturing ==
    \E e \in 1..MaxEvents :
        /\ rec[e].type = "click"
        /\ rec[e].href = <<"https://site", "/next">>
        /\ rec[e].pc = "capture"
        /\ rec[e].mode = "immediate"

C6_FailedCaptureStillPersists ==
    /\ \A e \in 1..MaxEvents :
         /\ (rec[e].pc = "add" /\ rec[e].shot = "null")
            => \E i \in 1..Len(dbQueue) :
                 /\ dbQueue[i].kind = "rec" /\ dbQueue[i].id = e
                 /\ ~dbQueue[i].visual
         /\ (rec[e].pc = "done" /\ rec[e].shot = "null")
            => rec[e].added # "none"
         /\ (rec[e].pc = "done" /\ rec[e].shot = "null" /\ rec[e].added = "ok")
            => /\ rec[e].response = "ok"
               /\ \E i \in 1..Len(dbSteps) :
                    /\ dbSteps[i].kind = "rec" /\ dbSteps[i].id = e
                    /\ ~dbSteps[i].visual
    /\ (pageLoad.pc = "add" /\ pageLoad.shot = "null")
       => \E i \in 1..Len(dbQueue) : dbQueue[i].kind = "load" /\ ~dbQueue[i].visual
    /\ (pageLoad.pc = "idle" /\ pageLoad.shot = "null") => pageLoad.added # "none"
    /\ (pageLoad.pc = "idle" /\ pageLoad.shot = "null" /\ pageLoad.added = "ok")
       => \E i \in 1..Len(dbSteps) : dbSteps[i].kind = "load" /\ ~dbSteps[i].visual

\* C6 witness: a RECORD_STEP whose capture returned null was answered with
\* success, and a page-load step whose capture returned null was saved.
C6_StepsSavedWithoutScreenshot ==
    /\ \E e \in 1..MaxEvents :
         /\ rec[e].pc = "done" /\ rec[e].shot = "null"
         /\ rec[e].added = "ok" /\ rec[e].response = "ok"
    /\ pageLoad.pc = "idle" /\ pageLoad.shot = "null" /\ pageLoad.added = "ok"

\* C7: a step of a RECORD_STEP handler that does not complete a successful
\* addStep leaves isRecording, currentSessionId, currentTabId and stepCount
\* as they were, and a handler whose addStep failed answers with a failure.
C7_FailedAddStepLeavesState ==
    [][\A e \in 1..MaxEvents :
          (rec'[e] # rec[e] /\ rec'[e].added # "ok")
          => /\ <<isRecording, currentSessionId, currentTabId, stepCount>>'
                  = <<isRecording, currentSessionId, currentTabId, stepCount>>
             /\ rec'[e].added = "fail"
                  => (rec'[e].pc = "done" /\ rec'[e].response = "error")]_vars

\* C7 witness: the addStep of the first step failed, the recording went on
\* and the second step was saved.
C7_LaterStepAccepted ==
    /\ isRecording
    /\ rec[1].added = "fail" /\ rec[1].response = "error"
    /\ rec[2].added = "ok" /\ rec[2].response = "ok"
    /\ stepCount >= 1

\* C8: isRecording turns false, or the current session id is cleared, only in
\* a step of stopRecording (the STOP_RECORDING command or tabs.onRemoved).
C8_RecordingLeftOnlyByStop ==
    [][(isRecording /\ (~isRecording' \/ currentSessionId' = 0))
        => stop' # stop]_vars

\* A pageLoad step is handed to db.addStep in this step.
PageLoadStepCreated ==
    /\ Len(dbQueue') = Len(dbQueue) + 1
    /\ dbQueue'[Len(dbQueue')].kind = "load"

\* C18: the screenshot of a page load is requested, and its pageLoad step is
\* created, only by a handler that was started by status 'complete' of the
\* tab it names and whose readiness wait has returned.
C18_PageLoadAfterCompleteAndReadiness ==
    [][ /\ (pageLoad.pc # "capture" /\ pageLoad'.pc = "capture")
           => /\ pageLoad.pc = "readiness"
              /\ pageLoad'.waited
              /\ pageLoad.status = "complete"
              /\ pageLoad.tab # 0
        /\ PageLoadStepCreated
           => /\ pageLoad.pc = "capture"
              /\ pageLoad.waited
              /\ pageLoad.status = "complete"
              /\ pageLoad.tab # 0 ]_vars

\* C18 witness: a pageLoad step with its screenshot is persisted after the
\* readiness wait of its handler.
C18_PageLoadStepPersisted ==
    /\ \E i \in 1..Len(dbSteps) : dbSteps[i].kind = "load" /\ dbSteps[i].visual
    /\ pageLoad.status = "complete"
    /\ pageLoad.waited
    /\ pageLoad.shot = "ok"
    /\ pageLoad.added = "ok"

\* The anchors whose click does not navigate: a javascript: URL and a
\* fragment of the same page.
NonNavigatingAnchors == {<<"javascript:", "void(0)">>, <<"#", "top">>}

\* C19: a click on an anchor whose href is a javascript: URL or a same-page
\* fragment takes the readiness-wait path: its screenshot is never taken in
\* immediate mode, and is taken only after the readiness wait.
C19_ScriptAndFragmentLinksWait ==
    \A e \in 1..MaxEvents :
        (/\ rec[e].type = "click"
         /\ \E a \in NonNavigatingAnchors : rec[e].href = hrefProperty(a))
        => /\ rec[e].mode # "immediate"
           /\ CaptureInvoked(e) => rec[e].waited

\* C20: the timestamp of every persisted step of an interaction or of a page
\* load is the time its event fired (for a page load: the time the tab
\* reported 'complete').
C20_TimestampIsEventTime ==
    \A i \in 1..Len(dbSteps) :
        dbSteps[i].kind \in {"rec", "load"}
        => dbSteps[i].timestamp = dbSteps[i].firedAt

(***************************************************************************)
(* Claims about VisualCaptureService (SpecCapture)                         *)
(***************************************************************************)

\* C3: any two successive invocations of chrome.tabs.captureVisibleTab are
\* at least MIN_CAPTURE_INTERVAL apart.
C3_CapturesAtLeastIntervalApart ==
    \A i \in 1..(Len(captures) - 1) :
        captures[i + 1] - captures[i] >= MIN_CAPTURE_INTERVAL

\* C23: a step that changes the zoom level or the active state of the tab is
\* never a step of an immediate capture.
C23_ImmediateCaptureLeavesTab ==
    [][ tab' # tab
        => \E c \in 1..MaxCalls :
             /\ calls'[c] # calls[c]
             /\ ~calls[c].immediate ]_vars

\* C23 witness: an immediate capture returned a screenshot of a tab that is
\* zoomed and not active, as it was at the start.
C23_ImmediateCaptureOfZoomedTab ==
    \E c \in 1..MaxCalls :
        /\ calls[c].pc = "done"
        /\ calls[c].immediate
        /\ calls[c].result = "ok"
        /\ calls[c].originalZoom = 150
        /\ tab.zoom = 150
        /\ ~tab.active

(***************************************************************************)
(* Part 4.  waitForPageReadiness, the background side of the detector      *)
(***************************************************************************)

PAGE_READINESS_FALLBACK_DELAY == 500

\* How long a call is watched.
ReadinessSpan == 1500

\* The two implementations: the method of RecorderController and the
\* function of the page load detector module.
Variants == {"controller", "module"}

PageReadinessState(ready, why, duration, chk) ==
    [isReady |-> ready, reason |-> why, duration |-> duration, checks |-> chk]

\* The states the injected detector hands back through executeScript.
DetectorStates ==
    {PageReadinessState(TRUE, "All checks passed", DOM_STABILITY_WAIT, AllChecks),
     PageReadinessState(TRUE, "Max timeout reached", PAGE_LOAD_MAX_TIMEOUT, NoChecks),
     PageReadinessState(FALSE, "Timeout after DOM stability", PAGE_LOAD_MAX_TIMEOUT,
                        [NoChecks EXCEPT !.domStable = TRUE]),
     PageReadinessState(FALSE, "Detection error", 0, NoChecks)}

\* How chrome.scripting.executeScript settles.
ScriptOutcomes == {"rejects", "noResult", "result"}

NoState == PageReadinessState(FALSE, "", 0, NoChecks)

\* A return of the call.
ReadinessReturn(w, state) ==
    [w EXCEPT !.pc = "done", !.result = state, !.returnedAt = bgNow,
              !.timer = NoTimer]

\* The catch block up to its await: the fallback delay starts.
ReadinessCatch(w) ==
    [w EXCEPT !.pc = "fallback", !.failedAt = bgNow,
              !.timer = bgNow + PAGE_READINESS_FALLBACK_DELAY]

\* The exception for a missing result leaves the function.
MissingResult_uncaught(w) == [w EXCEPT !.pc = "threw", !.failedAt = bgNow]

\* executeScript resolved without a result: the method throws into its own
\* catch block, the module function returns its fallback state at once.
MissingResult(w) ==
    IF w.variant = "controller"
    THEN ReadinessCatch(w)
    ELSE ReadinessReturn([w EXCEPT !.failedAt = bgNow],
             PageReadinessState(TRUE, "Detection script failed, using fallback",
                                0, NoChecks))

\* waitForPageReadiness(tabId) up to its first await: chrome.tabs.get in the
\* method, executeScript in the module function.
ReadinessCalled ==
    /\ bgNow = 0
    /\ \E v \in Variants :
         wfr = [variant |-> v, pc |-> IF v = "controller" THEN "get" ELSE "inject",
                failedAt |-> NoTimer, timer |-> NoTimer, returnedAt |-> NoTimer,
                result |-> NoState]
    \* the rest of the program is not part of this specification
    /\ idb = [calls |-> 0]
    /\ cnt = [pc |-> "idle"]
    /\ now = startTime
    /\ skeletonVisible = FALSE
    /\ det = [phase |-> "idle"]
    /\ isRecording = FALSE
    /\ currentSessionId = 0
    /\ currentTabId = 0
    /\ stepCount = 0
    /\ storage = <<>>
    /\ restorePc = "done"
    /\ nextSession = 1
    /\ fired = 0
    /\ rec = <<>>
    /\ start = [pc |-> "idle"]
    /\ stop = [pc |-> "idle"]
    /\ tabChange = [pc |-> "idle"]
    /\ pageLoad = [pc |-> "idle"]
    /\ tabEvents = 0
    /\ dbQueue = <<>>
    /\ dbSteps = <<>>
    /\ lastCaptureTime = 0
    /\ calls = <<>>
    /\ captures = <<>>
    /\ tab = [active |-> TRUE, zoom |-> 100]

\* Time passes while the call is open, but not beyond the fallback timer.
ReadinessTick ==
    /\ wfr.pc \notin {"done", "threw"}
    /\ bgNow + CaptureGrid <= ReadinessSpan
    /\ wfr.timer = NoTimer \/ wfr.timer > bgNow
    /\ bgNow' = bgNow + CaptureGrid
    /\ UNCHANGED <<wfr, lastCaptureTime, calls, captures, tab, detVars, ctlVars,
                   dbVars, cntVars>>

\* chrome.tabs.get settled: it threw, or the URL is restricted, or the
\* detector is injected.
ReadinessGotTab ==
    /\ wfr.pc = "get"
    /\ \E outcome \in {"throws", "restricted", "valid"} :
         wfr' = IF outcome = "throws" THEN ReadinessCatch(wfr)
                ELSE IF outcome = "restricted"
                THEN ReadinessReturn([wfr EXCEPT !.failedAt = bgNow],
                         PageReadinessState(TRUE, "Restricted URL, skipped detection",
                                            0, NoChecks))
                ELSE [wfr EXCEPT !.pc = "inject"]
    /\ UNCHANGED <<capVars, detVars, ctlVars, dbVars, cntVars>>

\* chrome.scripting.executeScript settled.
ReadinessScriptSettled ==
    /\ wfr.pc = "inject"
    /\ \E outcome \in ScriptOutcomes, state \in DetectorStates :
         wfr' = IF outcome = "rejects" THEN ReadinessCatch(wfr)
                ELSE IF outcome = "noResult" THEN MissingResult(wfr)
                ELSE ReadinessReturn(wfr, state)
    /\ UNCHANGED <<capVars, detVars, ctlVars, dbVars, cntVars>>

\* The fallback delay is over.
ReadinessFallbackElapsed ==
    /\ wfr.pc = "fallback"
    /\ wfr.timer <= bgNow
    /\ wfr' = ReadinessReturn(wfr,
                 PageReadinessState(TRUE,
                     IF wfr.variant = "controller"
                     THEN "Injection failed, used fallback delay"
                     ELSE "Detection error, used fallback delay",
                     PAGE_READINESS_FALLBACK_DELAY, NoChecks))
    /\ UNCHANGED <<capVars, detVars, ctlVars, dbVars, cntVars>>

NextReadiness ==
    \/ ReadinessTick
    \/ ReadinessGotTab
    \/ ReadinessScriptSettled
    \/ ReadinessFallbackElapsed

SpecReadiness == ReadinessCalled /\ [][NextReadiness]_vars

(***************************************************************************)
(* Claims about waitForPageReadiness (SpecReadiness)                       *)
(***************************************************************************)

\* C11: waitForPageReadiness never throws and returns a PageReadinessState;
\* after a restricted URL, a failed chrome call or a missing result the state
\* is ready with a reason, and it is returned at most the fallback delay
\* after the failure; while the fallback is pending no more than the delay
\* has passed.
C11_BoundaryAlwaysReturns ==
    /\ wfr.pc # "threw"
    /\ wfr.pc = "fallback"
         => bgNow - wfr.failedAt <= PAGE_READINESS_FALLBACK_DELAY
    /\ wfr.pc = "done"
         => /\ wfr.result \in [isReady : BOOLEAN,
                               reason : STRING \ {""},
                               duration : Nat,
                               checks : [domStable : BOOLEAN,
                                         resourcesLoaded : BOOLEAN,
                                         noSkeletons : BOOLEAN]]
            /\ wfr.failedAt # NoTimer
                 => /\ wfr.result.isReady
                    /\ wfr.returnedAt - wfr.failedAt <= PAGE_READINESS_FALLBACK_DELAY

\* C11 witness: executeScript failed the method, which returned the
\* fallback state after the fallback delay.
C11_FallbackDelayUsed ==
    /\ wfr.pc = "done"
    /\ wfr.variant = "controller"
    /\ wfr.result.reason = "Injection failed, used fallback delay"
    /\ wfr.returnedAt = wfr.failedAt + PAGE_READINESS_FALLBACK_DELAY

(***************************************************************************)
(* Part 5.  DB: the sessions store and the steps store in IndexedDB        *)
(***************************************************************************)

MaxDbCalls == 4
SessionIds == {1, 2}
StepIds == {1, 2}

\* A RecordedStep as far as the stores look at it: the key, the indexed
\* sessionId and whether a visual is attached.
RecordedSteps == [id : StepIds, sessionId : SessionIds, visual : BOOLEAN]

\* The `updates` of updateStep: a visual is attached.
StepUpdates == {[visual |-> TRUE]}

NoSession == [exists |-> FALSE, steps |-> <<>>]

\* The database after onupgradeneeded: both stores exist and are empty.
EmptyStores == [steps |-> {}, sessions |-> [s \in SessionIds |-> NoSession]]

NoCall ==
    [op |-> "none", session |-> 0, id |-> 0, rewrite |-> FALSE,
     fault |-> FALSE, outcome |-> "none", before |-> EmptyStores]

\* The outcome of a transaction: the stores it leaves and what the promise of
\* the call settles to.
Settled(stores, outcome) == [stores |-> stores, outcome |-> outcome]

\* stepsStore.get(stepId)
StepOf(d, stepId) == {r \in d.steps : r.id = stepId}

\* session.steps.push(step); sessionsStore.put(session)
Pushed(d, sessionId, step) ==
    IF d.sessions[sessionId].exists
    THEN [d EXCEPT !.sessions[sessionId].steps = Append(@, step)]
    ELSE d

\* DB.addStep(sessionId, step) in one transaction over both stores.
\* stepsStore.add fails with a ConstraintError when the key exists; nothing
\* handles the request's error, so the transaction aborts and onerror rejects.
\* sessionsStore.get(null) throws in the executor: the promise rejects and
\* the transaction, with its add, goes on.
addStep(d, sessionId, step) ==
    IF StepOf(d, step.id) # {}
    THEN Settled(d, "rejected")
    ELSE LET e == [d EXCEPT !.steps = @ \cup {step}]
         IN  IF sessionId = 0
             THEN Settled(e, "rejected")
             ELSE Settled(Pushed(e, sessionId, step), "resolved")

\* The steps list with the entries of the given key replaced: findIndex
\* finds the first one.
ReplaceFirst(steps, updated) ==
    LET hit == {i \in 1..Len(steps) : steps[i].id = updated.id}
    IN  IF hit = {} THEN steps
        ELSE LET first == CHOOSE i \in hit : \A j \in hit : i <= j
             IN  [steps EXCEPT ![first] = updated]

\* DB.updateStep(sessionId, stepId, updates)
updateStep(d, sessionId, stepId, updates) ==
    IF StepOf(d, stepId) = {}
    THEN Settled(d, "resolved")
    ELSE LET step == CHOOSE r \in StepOf(d, stepId) : TRUE
             updatedStep == [step EXCEPT !.visual = updates.visual]
             e == [d EXCEPT !.steps = (@ \ {step}) \cup {updatedStep}]
         IN  IF d.sessions[sessionId].exists
             THEN Settled([e EXCEPT !.sessions[sessionId].steps =
                                        ReplaceFirst(@, updatedStep)],
                          "resolved")
             ELSE Settled(e, "resolved")

\* Only the session record is deleted.
deleteSession_sessionOnly(d, sessionId) ==
    Settled([d EXCEPT !.sessions[sessionId] = NoSession], "resolved")

\* DB.deleteSession(sessionId): the cursor over the sessionId index deletes
\* every step of the session, then the session record is deleted.
deleteSession(d, sessionId) ==
    Settled([d EXCEPT !.steps = {r \in @ : r.sessionId # sessionId},
                      !.sessions[sessionId] = NoSession],
            "resolved")

\* DB.createSession(metadata): a session with a fresh id and no steps.
createSession(d, sessionId) ==
    Settled([d EXCEPT !.sessions[sessionId] = [exists |-> TRUE, steps |-> <<>>]],
            "resolved")

Stores(d) == [steps |-> d.steps, sessions |-> d.sessions]

\* A call of the DB class from its start to the end of its transaction.  A
\* transaction that fails for a reason of the environment (quota, a closed
\* connection) aborts: the stores stay and the promise rejects.
DbCall(op, sessionId, stepId, rewrite, fault, result) ==
    /\ idb.calls < MaxDbCalls
    /\ idb' = [steps |-> IF fault THEN idb.steps ELSE result.stores.steps,
               sessions |-> IF fault THEN idb.sessions
                            ELSE result.stores.sessions,
               created |-> IF op = "createSession" /\ ~fault
                           THEN idb.created + 1 ELSE idb.created,
               calls |-> idb.calls + 1,
               last |-> [op |-> op, session |-> sessionId, id |-> stepId,
                         rewrite |-> rewrite, fault |-> fault,
                         outcome |-> IF fault THEN "rejected"
                                     ELSE result.outcome,
                         before |-> Stores(idb)]]
    /\ UNCHANGED <<detVars, ctlVars, capVars, bndVars, cntVars>>

DbOpened ==
    /\ idb = [steps |-> {}, sessions |-> [s \in SessionIds |-> NoSession],
              created |-> 0, calls |-> 0, last |-> NoCall]
    \* the rest of the program is not part of this specification
    /\ cnt = [pc |-> "idle"]
    /\ wfr = [pc |-> "idle"]
    /\ now = startTime
    /\ skeletonVisible = FALSE
    /\ det = [phase |-> "idle"]
    /\ isRecording = FALSE
    /\ currentSessionId = 0
    /\ currentTabId = 0
    /\ stepCount = 0
    /\ storage = <<>>
    /\ restorePc = "done"
    /\ nextSession = 1
    /\ fired = 0
    /\ rec = <<>>
    /\ start = [pc |-> "idle"]
    /\ stop = [pc |-> "idle"]
    /\ tabChange = [pc |-> "idle"]
    /\ pageLoad = [pc |-> "idle"]
    /\ tabEvents = 0
    /\ dbQueue = <<>>
    /\ dbSteps = <<>>
    /\ bgNow = 0
    /\ lastCaptureTime = 0
    /\ calls = <<>>
    /\ captures = <<>>
    /\ tab = [active |-> TRUE, zoom |-> 100]

CreateSessionCall ==
    /\ idb.created < Cardinality(SessionIds)
    /\ \E fault \in BOOLEAN :
         DbCall("createSession", idb.created + 1, 0, FALSE, fault,
                createSession(idb, idb.created + 1))

\* The step was written before: the record is in the steps store and in the
\* list of the session.
Rewrite(d, sessionId, step) ==
    /\ sessionId # 0
    /\ step \in d.steps
    /\ \E i \in 1..Len(d.sessions[sessionId].steps) :
         d.sessions[sessionId].steps[i] = step

AddStepCall ==
    \E sessionId \in SessionIds \cup {0}, step \in RecordedSteps,
       fault \in BOOLEAN :
        DbCall("addStep", sessionId, step.id, Rewrite(idb, sessionId, step),
               fault, addStep(idb, sessionId, step))

UpdateStepCall ==
    \E sessionId \in SessionIds, stepId \in StepIds, updates \in StepUpdates,
       fault \in BOOLEAN :
        DbCall("updateStep", sessionId, stepId, FALSE, fault,
               updateStep(idb, sessionId, stepId, updates))

DeleteSessionCall ==
    \E sessionId \in SessionIds, fault \in BOOLEAN :
        DbCall("deleteSession", sessionId, 0, FALSE, fault,
               deleteSession(idb, sessionId))

NextDB ==
    \/ CreateSessionCall
    \/ AddStepCall
    \/ UpdateStepCall
    \/ DeleteSessionCall

SpecDB == DbOpened /\ [][NextDB]_vars

(***************************************************************************)
(* Claims about DB (SpecDB)                                                *)
(***************************************************************************)

\* C21: writing a step that is already in the session a second time, with
\* the same id, resolves and leaves both stores as they were after the first
\* write.
C21_AddStepIdempotent ==
    (idb.last.op = "addStep" /\ idb.last.rewrite /\ ~idb.last.fault)
        => /\ idb.last.outcome = "resolved"
           /\ Stores(idb) = idb.last.before

\* The keys of the steps store.
StoredIds(d) == {r.id : r \in d.steps}

\* The keys of the steps in the list of a session.
ListedIds(d, sessionId) ==
    {d.sessions[sessionId].steps[i].id :
        i \in 1..Len(d.sessions[sessionId].steps)}

\* C22: a record leaves the steps store only in deleteSession of its
\* sessionId, the list of a session that stays loses no step, and when
\* deleteSession(s) has resolved neither session s nor a step record whose
\* sessionId is s is in the stores.
C22_StepsRemovedOnlyWithSession ==
    [][ /\ \A r \in idb.steps :
             r.id \notin StoredIds(idb')
             => /\ idb'.last.op = "deleteSession"
                /\ idb'.last.session = r.sessionId
        /\ \A s \in SessionIds :
             (idb.sessions[s].exists /\ idb'.sessions[s].exists)
             => /\ ListedIds(idb, s) \subseteq ListedIds(idb', s)
                /\ Len(idb'.sessions[s].steps) >= Len(idb.sessions[s].steps)
        /\ (idb'.last.op = "deleteSession" /\ idb'.last.outcome = "resolved")
             => /\ ~idb'.sessions[idb'.last.session].exists
                /\ \A r \in idb'.steps : r.sessionId # idb'.last.session
      ]_vars

\* C22 witness: deleteSession resolved for a session that had a step in the
\* steps store, and a step of the other session is still stored.
C22_SessionDeletedWithItsSteps ==
    /\ idb.last.op = "deleteSession"
    /\ idb.last.outcome = "resolved"
    /\ idb.last.before.sessions[idb.last.session].exists
    /\ \E r \in idb.last.before.steps : r.sessionId = idb.last.session
    /\ \E r \in idb.steps : r.sessionId # idb.last.session

(***************************************************************************)
(* Part 6.  The content script: input and change events on form fields     *)
(***************************************************************************)

MaxFieldEvents == 2

MASKED == "***MASKED***"

\* A name or an id is the sequence of its parts: <<>> is the empty string.
FieldNames == {<<>>, <<"email">>, <<"user", "Password">>, <<"ssn">>}
FieldIds == {<<>>, <<"Card", "number">>}

\* What the user typed or chose.
Contents == {"", "hunter2"}

\* element.type of the elements that are not input elements.
TypeOfTag(tag) ==
    IF tag = "textarea" THEN "textarea"
    ELSE IF tag = "select" THEN "select-one"
    ELSE ""

\* The targets of the events: input elements of four types, a textarea, a
\* select, and an element that is no form control.
Elements ==
    {[tag |-> tag, type |-> type, name |-> name, id |-> id, value |-> value,
      checked |-> checked, connected |-> connected] :
        tag \in {"input"}, type \in {"text", "password", "checkbox", "radio"},
        name \in FieldNames, id \in FieldIds, value \in Contents,
        checked \in BOOLEAN, connected \in BOOLEAN}
    \cup
    {[tag |-> tag, type |-> TypeOfTag(tag), name |-> name, id |-> id,
      value |-> value, checked |-> FALSE, connected |-> connected] :
        tag \in {"textarea", "select", "div"},
        name \in FieldNames, id \in FieldIds, value \in Contents,
        connected \in BOOLEAN}

\* The two recorders: the Recorder class with its own handlers, and the
\* Recorder that delegates to eventHandlers.ts.
RecorderVersions == {"Recorder", "eventHandlers"}

\* String.prototype.toLowerCase, part by part.
toLowerCase(str) ==
    [i \in DOMAIN str |->
        IF str[i] = "Password" THEN "password"
        ELSE IF str[i] = "Card" THEN "card"
        ELSE str[i]]

\* String.prototype.includes
includes(str, pattern) == \E i \in DOMAIN str : str[i] = pattern

sensitivePatterns == {"password", "passwd", "pwd", "cc", "card", "cvv", "ssn"}

\* document.contains(element); script and style elements are not among the
\* targets.
shouldCaptureElement(element) == element.connected

\* Only the name and the id decide.
shouldMaskValue_byName(element) ==
    IF element.tag = "input"
    THEN \E pattern \in sensitivePatterns :
            \/ includes(toLowerCase(element.name), pattern)
            \/ includes(toLowerCase(element.id), pattern)
    ELSE FALSE

\* Recorder.shouldMaskValue
shouldMaskValue(element) ==
    IF element.tag = "input"
    THEN IF element.type = "password" THEN TRUE
         ELSE \E pattern \in sensitivePatterns :
                 \/ includes(toLowerCase(element.name), pattern)
                 \/ includes(toLowerCase(element.id), pattern)
    ELSE FALSE

\* A boolean value as it is recorded.
Checked(b) == IF b THEN "true" ELSE "false"

\* The step handed to recordStep, with the element as it was at that moment.
FieldStep(type, value, inputType, element) ==
    [type |-> type, value |-> value, inputType |-> inputType,
     name |-> element.name, target |-> element]

\* Recorder.handleInput: the steps it records, none or one.
handleInput(target) ==
    IF ~shouldCaptureElement(target) THEN <<>>
    ELSE <<FieldStep("input",
                     IF shouldMaskValue(target) THEN MASKED ELSE target.value,
                     IF target.tag = "input" THEN target.type ELSE "textarea",
                     target)>>

\* Recorder.handleChange
RecorderHandleChange(target) ==
    IF ~shouldCaptureElement(target) THEN <<>>
    ELSE IF target.tag = "input"
    THEN IF target.type = "checkbox"
         THEN <<FieldStep("change", Checked(target.checked), "checkbox", target)>>
         ELSE IF target.type = "radio"
         THEN <<FieldStep("change", target.value, "radio", target)>>
         ELSE <<FieldStep("change",
                          IF shouldMaskValue(target) THEN MASKED
                          ELSE target.value,
                          target.type, target)>>
    ELSE IF target.tag = "select"
    THEN <<FieldStep("change", target.value, "", target)>>
    ELSE <<FieldStep("change", "", "", target)>>

\* handleChange of eventHandlers.ts
handleChange(target) ==
    IF ~shouldCaptureElement(target) THEN <<>>
    ELSE IF target.tag = "input"
    THEN IF target.type = "checkbox"
         THEN <<FieldStep("change", Checked(target.checked), "checkbox", target)>>
         ELSE IF target.type = "radio"
         THEN <<FieldStep("change", target.value, "radio", target)>>
         ELSE <<>>
    ELSE IF target.tag = "select"
    THEN <<FieldStep("change", target.value, "", target)>>
    ELSE <<FieldStep("change", "", "", target)>>

\* The content script is loaded and its listeners are registered; the page
\* holds one of the elements.
ListenersRegistered ==
    /\ \E version \in RecorderVersions, element \in Elements :
         cnt = [recorder |-> version, element |-> element, events |-> 0,
                steps |-> <<>>]
    \* the rest of the program is not part of this specification
    /\ idb = [calls |-> 0]
    /\ wfr = [pc |-> "idle"]
    /\ now = startTime
    /\ skeletonVisible = FALSE
    /\ det = [phase |-> "idle"]
    /\ isRecording = FALSE
    /\ currentSessionId = 0
    /\ currentTabId = 0
    /\ stepCount = 0
    /\ storage = <<>>
    /\ restorePc = "done"
    /\ nextSession = 1
    /\ fired = 0
    /\ rec = <<>>
    /\ start = [pc |-> "idle"]
    /\ stop = [pc |-> "idle"]
    /\ tabChange = [pc |-> "idle"]
    /\ pageLoad = [pc |-> "idle"]
    /\ tabEvents = 0
    /\ dbQueue = <<>>
    /\ dbSteps = <<>>
    /\ bgNow = 0
    /\ lastCaptureTime = 0
    /\ calls = <<>>
    /\ captures = <<>>
    /\ tab = [active |-> TRUE, zoom |-> 100]

\* The element after the user typed, chose or toggled.
Edited(element, value) ==
    IF element.tag = "input" /\ element.type \in {"checkbox", "radio"}
    THEN [element EXCEPT !.checked = ~@]
    ELSE [element EXCEPT !.value = value]

\* An input event on the element: only the Recorder class listens to it.
InputEvent ==
    /\ cnt.events < MaxFieldEvents
    /\ cnt.recorder = "Recorder"
    /\ cnt.element.tag \in {"input", "textarea", "select"}
    /\ \E value \in Contents :
         LET target == Edited(cnt.element, value) IN
         cnt' = [cnt EXCEPT !.element = target, !.events = @ + 1,
                            !.steps = @ \o handleInput(target)]
    /\ UNCHANGED <<detVars, ctlVars, capVars, bndVars, dbVars>>

\* A change event on the element.
ChangeEvent ==
    /\ cnt.events < MaxFieldEvents
    /\ \E value \in Contents :
         LET target == Edited(cnt.element, value) IN
         cnt' = [cnt EXCEPT !.element = target, !.events = @ + 1,
                            !.steps = @ \o (IF cnt.recorder = "Recorder"
                                            THEN RecorderHandleChange(target)
                                            ELSE handleChange(target))]
    /\ UNCHANGED <<detVars, ctlVars, capVars, bndVars, dbVars>>

NextFields ==
    \/ InputEvent
    \/ ChangeEvent

SpecFields == ListenersRegistered /\ [][NextFields]_vars

(***************************************************************************)
(* Claims about the field events (SpecFields)                              *)
(***************************************************************************)

SensitiveField(element) ==
    \E pattern \in sensitivePatterns :
        \/ includes(toLowerCase(element.name), pattern)
        \/ includes(toLowerCase(element.id), pattern)

\* C25: every step recorded for an input or change event on a text input or
\* a textarea whose name or id matches a sensitive-field pattern has the
\* mask marker as its value.
C25_SensitiveFieldValueMasked ==
    \A i \in 1..Len(cnt.steps) :
        (/\ \/ cnt.steps[i].target.tag = "textarea"
            \/ cnt.steps[i].target.tag = "input"
                 /\ cnt.steps[i].target.type = "text"
         /\ SensitiveField(cnt.steps[i].target))
        => cnt.steps[i].value = MASKED

\* C30: with the handlers of eventHandlers.ts a change step is recorded only
\* for a checkbox, a radio button or a select element.
C30_ChangeStepOnlyForChoiceControls ==
    cnt.recorder = "eventHandlers"
    => \A i \in 1..Len(cnt.steps) :
         cnt.steps[i].type = "change"
         => \/ cnt.steps[i].target.tag = "select"
            \/ /\ cnt.steps[i].target.tag = "input"
               /\ cnt.steps[i].target.type \in {"checkbox", "radio"}

(***************************************************************************)
(* Part 7.  The content script: selector strategies and DOMAnalyzer        *)
(***************************************************************************)

\* A string is the sequence of its characters; the fixed pieces a selector is
\* built from ("[", "data-", "=", ...) are single elements of the sequence.
\* null is a value of its own, '' is the empty sequence.
Null == <<"null">>

Truthy(s) == s # Null /\ s # <<>>

Digits == {"0", "1", "2", "3", "4", "5", "6", "7", "8", "9"}
LowerLetters == {"a", "b", "c", "d", "e", "f", "g", "h", "i", "j", "k", "l", "m", "n", "o", "p", "q", "r", "s", "t", "u", "v", "w", "x", "y", "z"}
UpperLetters == {"A", "B", "C", "D", "E", "F", "G", "H", "I", "J", "K", "L", "M", "N", "O", "P", "Q", "R", "S", "T", "U", "V", "W", "X", "Y", "Z"}
HexDigits == Digits \cup {"a", "b", "c", "d", "e", "f"} \cup {"A", "B", "C", "D", "E", "F"}

AllIn(s, from, set) == \A i \in from..Len(s) : s[i] \in set

HasPrefix(s, p) == Len(s) >= Len(p) /\ SubSeq(s, 1, Len(p)) = p

\* String.prototype.includes for a piece of several elements.
IncludesSeq(s, p) ==
    \E i \in 1..(Len(s) - Len(p) + 1) : SubSeq(s, i, i + Len(p) - 1) = p

\* The six patterns of dynamicPatterns, in their order.
isDynamicId(id) ==
    \* /^[a-f0-9]{8,}$/i
    \/ Len(id) >= 8 /\ AllIn(id, 1, HexDigits)
    \* /^[0-9]{8,}$/
    \/ Len(id) >= 8 /\ AllIn(id, 1, Digits)
    \* /^_[0-9]+$/
    \/ Len(id) >= 2 /\ id[1] = "_" /\ AllIn(id, 2, Digits)
    \* /:r[0-9a-z]+:/
    \/ \E i, j \in 1..Len(id) :
         /\ j >= i + 3
         /\ id[i] = ":" /\ id[i + 1] = "r" /\ id[j] = ":"
         /\ \A k \in (i + 2)..(j - 1) : id[k] \in Digits \cup LowerLetters
    \* /^mui-[0-9]+$/
    \/ HasPrefix(id, <<"m", "u", "i", "-">>) /\ Len(id) >= 5 /\ AllIn(id, 5, Digits)
    \* /^radix-[0-9]+$/
    \/ HasPrefix(id, <<"r", "a", "d", "i", "x", "-">>) /\ Len(id) >= 7 /\ AllIn(id, 7, Digits)

isDynamicValue(value) == isDynamicId(value)

\* isDynamicClass: /^[a-z]-[a-f0-9]{6,}$/i, /^css-[a-z0-9]+$/i and
\* /^[A-Z][a-z]+-[a-z]+-[0-9]+$/
isDynamicClass(className) ==
    \/ /\ Len(className) >= 8
       /\ className[1] \in LowerLetters \cup UpperLetters
       /\ className[2] = "-"
       /\ AllIn(className, 3, HexDigits)
    \/ /\ Len(className) >= 5
       /\ SubSeq(className, 1, 4) \in {<<"c", "s", "s", "-">>, <<"C", "S", "S", "-">>}
       /\ AllIn(className, 5, Digits \cup LowerLetters \cup UpperLetters)
    \/ \E i, j \in 1..Len(className) :
         /\ i >= 3 /\ j >= i + 2 /\ j < Len(className)
         /\ className[1] \in UpperLetters
         /\ \A k \in 2..(i - 1) : className[k] \in LowerLetters
         /\ className[i] = "-"
         /\ \A k \in (i + 1)..(j - 1) : className[k] \in LowerLetters
         /\ className[j] = "-"
         /\ AllIn(className, j + 1, Digits)

\* isUtilityClass: /^[mp][trblxy]?-/ and the prefixes text-, bg-, flex,
\* grid, w-, h-, hover:, focus:, active:
isUtilityClass(className) ==
    \/ /\ Len(className) >= 2 /\ className[1] \in {"m", "p"}
       /\ \/ className[2] = "-"
          \/ /\ Len(className) >= 3
             /\ className[2] \in {"t", "r", "b", "l", "x", "y"}
             /\ className[3] = "-"
    \/ \E p \in {<<"t", "e", "x", "t", "-">>, <<"b", "g", "-">>, <<"f", "l", "e", "x">>, <<"g", "r", "i", "d">>, <<"w", "-">>, <<"h", "-">>, <<"h", "o", "v", "e", "r", ":">>, <<"f", "o", "c", "u", "s", ":">>,
                 <<"a", "c", "t", "i", "v", "e", ":">>} : HasPrefix(className, p)

\* CSS.escape: a leading digit becomes its code point escape, a colon gets a
\* backslash; the other characters of the inputs are kept.
CSSEscape(value) ==
    LET esc(i) == IF i = 1 /\ value[i] \in Digits
                  THEN <<"\\3", value[i], " ">>
                  ELSE IF value[i] = ":" THEN <<"\\", ":">>
                  ELSE <<value[i]>>
        join[i \in 0..Len(value)] ==
            IF i = 0 THEN <<>> ELSE join[i - 1] \o esc(i)
    IN  join[Len(value)]

\* element.tagName.toLowerCase()
tagNameLower(tagName) ==
    CASE tagName = "DIV" -> "div"
      [] tagName = "INPUT" -> "input"
      [] tagName = "BUTTON" -> "button"
      [] tagName = "FORM" -> "form"
      [] tagName = "BODY" -> "body"

\* Strategy 1
getIdSelector(element) ==
    IF element.id = <<>> THEN Null
    ELSE IF isDynamicId(element.id) THEN Null
    ELSE <<"#">> \o CSSEscape(element.id)

AttributeSelector(attr) ==
    <<"[">> \o attr.name \o <<"=\"">> \o CSSEscape(attr.value) \o <<"\"]">>

TestIdNames ==
    {<<"data-", "testid">>, <<"data-", "test">>, <<"data-", "cy">>,
     <<"data-", "automation">>}

\* Strategy 2
getDataAttributeSelector(element) ==
    LET IsData(attr) == startsWith(attr.name, "data-")
        IsStable(attr) == ~isDynamicValue(attr.value)
        dataAttrs == SelectSeq(SelectSeq(element.attributes, IsData), IsStable)
        testIds == {i \in 1..Len(dataAttrs) : dataAttrs[i].name \in TestIdNames}
        testIdAttr == CHOOSE i \in testIds : \A j \in testIds : i <= j
    IN  IF Len(dataAttrs) = 0 THEN Null
        ELSE IF testIds # {} THEN AttributeSelector(dataAttrs[testIdAttr])
        ELSE AttributeSelector(dataAttrs[1])

\* Strategy 3
getAriaSelector(element) ==
    IF element.ariaLabel # <<>> /\ ~isDynamicValue(element.ariaLabel)
    THEN <<tagNameLower(element.tagName), "[", "aria-", "label", "=\"">>
             \o CSSEscape(element.ariaLabel) \o <<"\"]">>
    ELSE IF element.role # <<>> /\ element.labelledBy # <<>>
    THEN <<"[", "role", "=\"">> \o element.role
             \o <<"\"]", "[", "aria-", "labelledby", "=\"">>
             \o element.labelledBy \o <<"\"]">>
    ELSE Null

\* Strategy 4
getNameSelector(element) ==
    IF element.tagName \notin {"INPUT", "SELECT", "TEXTAREA"} THEN Null
    ELSE IF element.name = <<>> \/ isDynamicValue(element.name) THEN Null
    ELSE <<tagNameLower(element.tagName), "[", "name", "=\"">>
             \o CSSEscape(element.name) \o <<"\"]">>

\* Strategy 5: up to three classes that are neither generated nor utility
\* classes; a selector with more than ten matches is dropped.
getClassSelector(element, document) ==
    LET Kept(cls) == ~isDynamicClass(cls) /\ ~isUtilityClass(cls)
        kept == SelectSeq(element.classList, Kept)
        classes == SubSeq(kept, 1, IF Len(kept) < 3 THEN Len(kept) ELSE 3)
        dotted[i \in 0..Len(classes)] ==
            IF i = 0 THEN <<>> ELSE dotted[i - 1] \o <<".">> \o classes[i]
    IN  IF Len(element.classList) = 0 THEN Null
        ELSE IF Len(classes) = 0 THEN Null
        ELSE IF document.others > 10 THEN Null
        ELSE <<tagNameLower(element.tagName)>> \o dotted[Len(classes)]

\* Strategy 6
getTextSelector(element) ==
    IF element.text = <<>> \/ Len(element.text) > 50 THEN Null
    ELSE IF tagNameLower(element.tagName) \notin {"button", "a", "label", "span"}
    THEN Null
    ELSE <<tagNameLower(element.tagName), ":has-text(\"">> \o element.text
             \o <<"\")">>

\* The element and its ancestors below document.body, innermost first; for
\* document.body itself there is none.
Chain(element) ==
    IF element.tagName = "BODY" THEN <<>>
    ELSE <<element>> \o element.ancestors

\* The loop of the two path strategies stops at the first element with a
\* stable id; 0 when there is none.
StopAt(chain) ==
    LET hit == {i \in 1..Len(chain) :
                   chain[i].id # <<>> /\ ~isDynamicId(chain[i].id)}
    IN  IF hit = {} THEN 0 ELSE CHOOSE i \in hit : \A j \in hit : i <= j

\* Strategy 7
getCssPathSelector(element) ==
    LET chain == Chain(element)
        segment(i) ==
            IF i = StopAt(chain) THEN <<"#">> \o CSSEscape(chain[i].id)
            ELSE IF chain[i].siblings > 1
            THEN <<tagNameLower(chain[i].tagName), ":nth-of-type(",
                   chain[i].index, ")">>
            ELSE <<tagNameLower(chain[i].tagName)>>
        path[i \in 0..Len(chain)] ==
            IF i = 0 THEN <<>>
            ELSE IF i = 1 THEN segment(1)
            ELSE segment(i) \o <<" > ">> \o path[i - 1]
    IN  path[IF StopAt(chain) = 0 THEN Len(chain) ELSE StopAt(chain)]

\* Strategy 8
getXPathSelector(element) ==
    LET chain == Chain(element)
        segment(i) ==
            IF i = StopAt(chain)
            THEN <<"//*[@id=\"">> \o chain[i].id \o <<"\"]">>
            ELSE <<tagNameLower(chain[i].tagName), "[", chain[i].index, "]">>
        path[i \in 0..Len(chain)] ==
            IF i = 0 THEN <<>>
            ELSE IF i = 1 THEN segment(1)
            ELSE segment(i) \o <<"/">> \o path[i - 1]
    IN  <<"xpath://">>
            \o path[IF StopAt(chain) = 0 THEN Len(chain) ELSE StopAt(chain)]

\* document.querySelectorAll(selector).length: 0 stands for the SyntaxError
\* thrown for a selector that is no CSS (:has-text, xpath:).
Matches(selector, document) ==
    IF startsWith(selector, "xpath://") \/ includes(selector, ":has-text(\"")
    THEN 0
    ELSE IF IncludesSeq(selector, <<"[", "data-", "testid">>)
    THEN document.testid
    ELSE IF IncludesSeq(selector, <<"[", "data-">>) THEN document.data
    ELSE document.others

\* DOMAnalyzer.calculateConfidence
calculateConfidence(selectors, document) ==
    LET Some(Test(_)) == \E i \in 1..Len(selectors) : Test(selectors[i])
        IsId(s) == startsWith(s, "#")
        IsData(s) == IncludesSeq(s, <<"[", "data-">>)
        IsAria(s) == IncludesSeq(s, <<"[", "aria-">>)
        IsName(s) == IncludesSeq(s, <<"[", "name", "=\"">>)
        matches == Matches(selectors[1], document)
        score == (IF Some(IsId) THEN 40 ELSE 0)
                 + (IF Some(IsData) THEN 30 ELSE 0)
                 + (IF Some(IsAria) THEN 25 ELSE 0)
                 + (IF Some(IsName) THEN 20 ELSE 0)
                 + (IF Len(selectors) >= 3 THEN 10 ELSE 0)
                 + (IF matches = 0 THEN -10
                    ELSE IF matches = 1 THEN 20
                    ELSE IF matches <= 5 THEN 10 ELSE 0)
    IN  IF score > 100 THEN 100 ELSE IF score < 0 THEN 0 ELSE score

\* The results of the eight strategies in priority order.
Candidates(element, document) ==
    <<getIdSelector(element), getDataAttributeSelector(element),
      getAriaSelector(element), getNameSelector(element),
      getClassSelector(element, document), getTextSelector(element),
      getCssPathSelector(element), getXPathSelector(element)>>

\* The candidates are collected from the lowest priority up.
generateSelectorStrategy_reversed(element, document) ==
    LET candidates == Candidates(element, document)
        pushed[i \in 0..8] ==
            IF i = 0 THEN <<>>
            ELSE IF Truthy(candidates[9 - i])
            THEN Append(pushed[i - 1], candidates[9 - i])
            ELSE pushed[i - 1]
        selectors == pushed[8]
    IN  [primary |-> selectors[1], fallbacks |-> Tail(selectors),
         confidence |-> calculateConfidence(selectors, document)]

\* The path strategies are not used.
generateSelectorStrategy_noPaths(element, document) ==
    LET selectors == SelectSeq(SubSeq(Candidates(element, document), 1, 6), Truthy)
    IN  [primary |-> IF Len(selectors) > 0 THEN selectors[1] ELSE <<>>,
         fallbacks |-> IF Len(selectors) > 0 THEN Tail(selectors) ELSE <<>>,
         confidence |-> 0]

\* DOMAnalyzer.generateSelectorStrategy
generateSelectorStrategy(element, document) ==
    LET selectors == SelectSeq(Candidates(element, document), Truthy)
    IN  [primary |-> IF Len(selectors) > 0 THEN selectors[1]
                     ELSE IF Truthy(getCssPathSelector(element))
                     THEN getCssPathSelector(element)
                     ELSE <<"body">>,
         fallbacks |-> IF Len(selectors) > 0 THEN Tail(selectors) ELSE <<>>,
         confidence |-> calculateConfidence(selectors, document)]

TestIdAttribute == [name |-> <<"data-", "testid">>, value |-> <<"i", "t", "e", "m">>]

\* The elements a strategy is generated for: elements below document.body,
\* and document.body itself.
\*   ids: none, two stable ones, and one for each pattern of isDynamicId
\*     with the two examples of the specification;
\*   attributes: none, a title, a stable data-id, a dynamic data-id;
\*   kinds: tag, name and own text;
\*   aria: aria-label, or role with aria-labelledby, or neither;
\*   ancestors below document.body: none, or a form with a stable id;
\*   positions: the number of siblings of the same tag, and the index.
DomElements ==
    LET ids ==
            {<<>>, <<"s", "u", "b", "m", "i", "t">>, <<"1", "s", "t">>,
             <<"r", "a", "d", "i", "x", "-", "4", "2">>, <<"a", "1", "b", "2", "c", "3", "d", "4", "e", "5", "f", "6", "g", "7", "h", "8">>,
             <<"d", "e", "a", "d", "b", "e", "e", "f">>, <<"1", "2", "3", "4", "5", "6", "7", "8">>, <<"_", "7">>, <<":", "r", "1", "a", ":">>, <<"m", "u", "i", "-", "3">>}
        attributeLists ==
            {<<>>,
             <<[name |-> <<"title">>, value |-> <<"i", "t", "e", "m">>]>>,
             <<[name |-> <<"data-", "id">>, value |-> <<"4", "2">>]>>,
             <<[name |-> <<"data-", "id">>, value |-> <<"1", "2", "3", "4", "5", "6", "7", "8">>]>>}
        kinds ==
            {[tagName |-> "DIV", name |-> <<>>, text |-> <<>>],
             [tagName |-> "INPUT", name |-> <<>>, text |-> <<>>],
             [tagName |-> "INPUT", name |-> <<"e", "m", "a", "i", "l">>, text |-> <<>>],
             [tagName |-> "BUTTON", name |-> <<>>, text |-> <<>>],
             [tagName |-> "BUTTON", name |-> <<>>, text |-> <<"S", "a", "v", "e">>]}
        aria ==
            {[ariaLabel |-> <<>>, role |-> <<>>, labelledBy |-> <<>>],
             [ariaLabel |-> <<"C", "l", "o", "s", "e">>, role |-> <<>>, labelledBy |-> <<>>],
             [ariaLabel |-> <<>>, role |-> <<"d", "i", "a", "l", "o", "g">>, labelledBy |-> <<"t", "i", "t", "l", "e">>]}
        classLists == {<<>>, <<<<"b", "t", "n">>, <<"f", "l", "e", "x">>, <<"c", "s", "s", "-", "1", "a", "2", "b">>>>}
        ancestorLists ==
            {<<>>, <<[tagName |-> "FORM", id |-> <<"l", "o", "g", "i", "n">>, siblings |-> 1, index |-> "1"]>>}
        positions ==
            {[siblings |-> 1, index |-> "1"], [siblings |-> 2, index |-> "2"]}
        DomElement(k, id, attributes, a, classList, ancestors, position) ==
            [tagName |-> k.tagName, name |-> k.name, text |-> k.text,
             id |-> id, attributes |-> attributes, ariaLabel |-> a.ariaLabel,
             role |-> a.role, labelledBy |-> a.labelledBy,
             classList |-> classList, ancestors |-> ancestors,
             siblings |-> position.siblings, index |-> position.index]
    IN  {DomElement(k, id, attributes, a, classList, ancestors, position) :
            k \in kinds, id \in ids, attributes \in attributeLists,
            a \in aria, classList \in classLists,
            ancestors \in ancestorLists, position \in positions}
        \cup
        {DomElement([tagName |-> "BODY", name |-> <<>>, text |-> <<>>], id,
                    attributes,
                    [ariaLabel |-> <<>>, role |-> <<>>, labelledBy |-> <<>>],
                    <<>>, <<>>, [siblings |-> 1, index |-> "1"]) :
            id \in {<<>>, <<"s", "u", "b", "m", "i", "t">>}, attributes \in attributeLists}

\* The rest of the document, as far as the strategies look at it: how many
\* elements match a data-testid selector, another data attribute selector,
\* and any other selector of the element.
Documents == [testid : {1, 6}, data : {1, 6}, others : {1, 3, 6, 11}]

NoStrategy == [primary |-> Null, fallbacks |-> <<>>, confidence |-> 0]

\* The content script is loaded in a document with the element.
DocumentLoaded ==
    /\ \E element \in DomElements, document \in Documents :
         cnt = [element |-> element, document |-> document,
                strategy |-> NoStrategy, before |-> NoStrategy,
                candidates |-> <<>>, analyzed |-> FALSE,
                testIdAdded |-> FALSE]
    \* the rest of the program is not part of this specification
    /\ idb = [calls |-> 0]
    /\ wfr = [pc |-> "idle"]
    /\ now = startTime
    /\ skeletonVisible = FALSE
    /\ det = [phase |-> "idle"]
    /\ isRecording = FALSE
    /\ currentSessionId = 0
    /\ currentTabId = 0
    /\ stepCount = 0
    /\ storage = <<>>
    /\ restorePc = "done"
    /\ nextSession = 1
    /\ fired = 0
    /\ rec = <<>>
    /\ start = [pc |-> "idle"]
    /\ stop = [pc |-> "idle"]
    /\ tabChange = [pc |-> "idle"]
    /\ pageLoad = [pc |-> "idle"]
    /\ tabEvents = 0
    /\ dbQueue = <<>>
    /\ dbSteps = <<>>
    /\ bgNow = 0
    /\ lastCaptureTime = 0
    /\ calls = <<>>
    /\ captures = <<>>
    /\ tab = [active |-> TRUE, zoom |-> 100]

\* generateSelectorStrategy(element) is called for an event on the element;
\* candidates keeps what each of the eight strategies returned.
Analyze ==
    /\ ~cnt.analyzed
    /\ cnt' = [cnt EXCEPT !.analyzed = TRUE,
                          !.candidates = Candidates(cnt.element, cnt.document),
                          !.strategy = generateSelectorStrategy(cnt.element,
                                                                cnt.document)]
    /\ UNCHANGED <<detVars, ctlVars, capVars, bndVars, dbVars>>

\* The page gives the element a data-testid attribute and the strategy is
\* generated again; the document is otherwise the same.
AnalyzeWithTestId ==
    /\ cnt.analyzed
    /\ ~cnt.testIdAdded
    /\ LET element == [cnt.element EXCEPT
                          !.attributes = Append(@, TestIdAttribute)] IN
       cnt' = [cnt EXCEPT !.element = element, !.testIdAdded = TRUE,
                          !.before = cnt.strategy,
                          !.candidates = Candidates(element, cnt.document),
                          !.strategy = generateSelectorStrategy(element,
                                                                cnt.document)]
    /\ UNCHANGED <<detVars, ctlVars, capVars, bndVars, dbVars>>

NextSelectors ==
    \/ Analyze
    \/ AnalyzeWithTestId

SpecSelectors == DocumentLoaded /\ [][NextSelectors]_vars

(***************************************************************************)
(* Claims about the selector strategies (SpecSelectors)                    *)
(***************************************************************************)

\* The ids the specification gives as examples of dynamic ids.
DynamicIdExamples == {<<"r", "a", "d", "i", "x", "-", "4", "2">>, <<"a", "1", "b", "2", "c", "3", "d", "4", "e", "5", "f", "6", "g", "7", "h", "8">>}

\* C26: for an element whose id is one of the examples "radix-42" and
\* "a1b2c3d4e5f6g7h8" the id strategy returns null and primary is the
\* candidate of a strategy of lower priority.
C26_DynamicIdSkipped ==
    (cnt.analyzed /\ ~cnt.testIdAdded /\ cnt.element.id \in DynamicIdExamples)
        => /\ getIdSelector(cnt.element) = Null
           /\ cnt.strategy.primary # <<"#">> \o CSSEscape(cnt.element.id)
           /\ \E i \in 2..8 : cnt.strategy.primary = cnt.candidates[i]

\* The strategies that succeeded, by priority 1..8.
Succeeded(candidates) == {i \in 1..8 : Truthy(candidates[i])}

\* The k-th smallest member of a set of numbers.
Nth(set, k) == CHOOSE i \in set : Cardinality({j \in set : j < i}) = k - 1

StableId(element) == element.id # <<>> /\ ~isDynamicId(element.id)

\* C27: primary is the candidate of the strategy of highest priority that
\* succeeded, fallbacks are the candidates of the other strategies that
\* succeeded, in priority order, and an element with a stable id has its
\* #id selector as primary.
C27_PrimaryByPriority ==
    cnt.analyzed =>
        LET succeeded == Succeeded(cnt.candidates)
        IN  /\ succeeded # {}
            /\ cnt.strategy.primary = cnt.candidates[Nth(succeeded, 1)]
            /\ Len(cnt.strategy.fallbacks) = Cardinality(succeeded) - 1
            /\ \A k \in 1..Len(cnt.strategy.fallbacks) :
                   cnt.strategy.fallbacks[k]
                       = cnt.candidates[Nth(succeeded, k + 1)]
            /\ StableId(cnt.element)
                   => cnt.strategy.primary = <<"#">> \o CSSEscape(cnt.element.id)

\* C27 (witness): an input with the stable id "1st", a data attribute, a
\* name and an aria-label was analyzed: its primary is the escaped id
\* selector and it has at least five fallbacks.
C27_StableIdWithFallbacks ==
    /\ cnt.analyzed
    /\ cnt.element.id = <<"1", "s", "t">>
    /\ cnt.strategy.primary = <<"#", "\\3", "1", " ", "s", "t">>
    /\ Len(cnt.strategy.fallbacks) >= 5
    /\ IncludesSeq(cnt.strategy.fallbacks[1], <<"[", "data-">>)

C29_TestIdKeepsConfidence ==
    cnt.testIdAdded => cnt.strategy.confidence >= cnt.before.confidence

(***************************************************************************)
(* Claims about sessions and the recording state (SpecController)          *)
(***************************************************************************)

\* C32: db.addStep is never called with a null session id, nor with a
\* session id other than the sessionId of the step it is given.
C32_StepSavedToItsSession ==
    \A i \in 1..Len(dbQueue) :
        dbQueue[i].into # 0 /\ dbQueue[i].into = dbQueue[i].sessionId

\* C33: whenever the controller is idle, its session id and tab id are null
\* and its step count is 0.
C33_IdleStateIsEmpty ==
    ~isRecording => currentSessionId = 0 /\ currentTabId = 0 /\ stepCount = 0

\* C34: when START_RECORDING returns success:false for a restricted URL or
\* for a failure after the session was created, the controller is idle, has
\* no session id, and the saved state, if any, is the state in memory.
C34_FailedStartLeavesIdle ==
    [][(start'.response \in {"restricted", "error"} /\ start'.response # start.response)
          => /\ ~isRecording'
             /\ currentSessionId' = 0
             /\ storage' # <<>> =>
                    storage'[1] = RecordingState(isRecording', currentSessionId',
                                                 currentTabId', stepCount')]_vars

(***************************************************************************)
(* Part 8.  The content script: the Recorder class of Recorder.ts          *)
(***************************************************************************)

\* The calls of start() and stop() and the events of the page that are
\* followed.
MaxRecorderEvents == 5

\* The sessionId of a START_RECORDING message: a session, or null (0) when the
\* controller had none at the time it sent the message.
StartArguments == {0, 1, 2}

\* The events the Recorder listens to, and the two wrapped history methods.
ListenedEvents == {"click", "change", "submit", "popstate"}
HistoryMethods == {"pushState", "replaceState"}

\* No recording is going on: between a stop() and the next start().
NotStarted == -1

\* The step type a listener of setupEventListeners records.
StepTypeOf(event) == IF event = "popstate" THEN "navigation" ELSE event

\* Recorder.recordStep without its guard.
recordStep_unguarded(r, type) ==
    [r EXCEPT !.sent = Append(@, [type |-> type, sessionId |-> r.sessionId])]

\* Recorder.recordStep: the RECORD_STEP message is sent while recording with
\* a session id.
recordStep(r, type) ==
    IF ~r.isRecording \/ r.sessionId = 0 THEN r
    ELSE [r EXCEPT !.sent = Append(@, [type |-> type, sessionId |-> r.sessionId])]

\* Recorder.wrapHistoryMethods: history.pushState and history.replaceState are
\* replaced by a function around what they are at this moment.
wrapHistoryMethods(r) ==
    [r EXCEPT !.wrappers = [m \in HistoryMethods |-> r.wrappers[m] + 1]]

\* Recorder.start -> setupEventListeners: four listeners are added and
\* tracked, the history methods are wrapped.
RecorderStarted(r, sessionId) ==
    IF r.isRecording THEN r
    ELSE wrapHistoryMethods(
             [r EXCEPT !.sessionId = sessionId, !.isRecording = TRUE,
                       !.eventListeners = ListenedEvents,
                       !.registered = [e \in ListenedEvents |->
                                          r.registered[e] + 1],
                       !.began = sessionId])

\* Recorder.stop -> removeEventListeners: the tracked listeners are removed;
\* the history methods stay as they are.
RecorderStopped(r) ==
    IF ~r.isRecording THEN [r EXCEPT !.began = NotStarted]
    ELSE [r EXCEPT !.isRecording = FALSE, !.sessionId = 0,
                   !.eventListeners = {},
                   !.registered = [e \in ListenedEvents |->
                                      IF e \in r.eventListeners
                                      THEN r.registered[e] - 1
                                      ELSE r.registered[e]],
                   !.began = NotStarted]

\* An event is dispatched to the listeners registered for it: each handler
\* builds a step and calls context.recordStep.
Dispatched(r, event) ==
    LET run[n \in 0..r.registered[event]] ==
            IF n = 0 THEN r ELSE recordStep(run[n - 1], StepTypeOf(event))
    IN  run[r.registered[event]]

\* history[method](...) as the page calls it: each wrapper calls what it
\* wrapped and then handleNavigation; the innermost is the page's original.
HistoryCalled(r, method) ==
    LET run[n \in 0..r.wrappers[method]] ==
            IF n = 0 THEN [r EXCEPT !.originals = 1]
            ELSE recordStep(run[n - 1], "navigation")
    IN  run[r.wrappers[method]]

\* The content script was loaded: `new Recorder()`.
RecorderConstructed ==
    /\ cnt = [isRecording |-> FALSE, sessionId |-> 0, eventListeners |-> {},
              registered |-> [e \in ListenedEvents |-> 0],
              wrappers |-> [m \in HistoryMethods |-> 0],
              sent |-> <<>>, originals |-> 0, began |-> NotStarted,
              last |-> "none", recording |-> FALSE, starts |-> 0, events |-> 0]
    \* the rest of the program is not part of this specification
    /\ idb = [calls |-> 0]
    /\ wfr = [pc |-> "idle"]
    /\ now = startTime
    /\ skeletonVisible = FALSE
    /\ det = [phase |-> "idle"]
    /\ isRecording = FALSE
    /\ currentSessionId = 0
    /\ currentTabId = 0
    /\ stepCount = 0
    /\ storage = <<>>
    /\ restorePc = "done"
    /\ nextSession = 1
    /\ fired = 0
    /\ rec = <<>>
    /\ start = [pc |-> "idle"]
    /\ stop = [pc |-> "idle"]
    /\ tabChange = [pc |-> "idle"]
    /\ pageLoad = [pc |-> "idle"]
    /\ tabEvents = 0
    /\ dbQueue = <<>>
    /\ dbSteps = <<>>
    /\ bgNow = 0
    /\ lastCaptureTime = 0
    /\ calls = <<>>
    /\ captures = <<>>
    /\ tab = [active |-> TRUE, zoom |-> 100]

\* What every step of the Recorder does to the bookkeeping: the count of
\* events, what happened last and whether a recording with a session was
\* going on when it happened.
Followed(r, last) ==
    [r EXCEPT !.events = cnt.events + 1, !.last = last,
              !.recording = cnt.isRecording /\ cnt.sessionId # 0]

\* The START_RECORDING message: recorder.start(data.sessionId).
RecorderStart ==
    /\ cnt.events < MaxRecorderEvents
    /\ \E sessionId \in StartArguments :
         cnt' = [Followed(RecorderStarted(cnt, sessionId), "start")
                    EXCEPT !.starts = IF cnt.isRecording THEN @ ELSE @ + 1]
    /\ UNCHANGED <<detVars, ctlVars, capVars, bndVars, dbVars>>

\* The STOP_RECORDING message: recorder.stop().
RecorderStop ==
    /\ cnt.events < MaxRecorderEvents
    /\ cnt' = Followed(RecorderStopped(cnt), "stop")
    /\ UNCHANGED <<detVars, ctlVars, capVars, bndVars, dbVars>>

\* A click, change, submit or popstate event of the page.
PageEvent ==
    /\ cnt.events < MaxRecorderEvents
    /\ \E event \in ListenedEvents :
         cnt' = Followed(Dispatched(cnt, event), event)
    /\ UNCHANGED <<detVars, ctlVars, capVars, bndVars, dbVars>>

\* The page calls history.pushState or history.replaceState.
HistoryCall ==
    /\ cnt.events < MaxRecorderEvents
    /\ \E method \in HistoryMethods :
         cnt' = Followed(HistoryCalled(cnt, method), method)
    /\ UNCHANGED <<detVars, ctlVars, capVars, bndVars, dbVars>>

NextRecorder ==
    \/ RecorderStart
    \/ RecorderStop
    \/ PageEvent
    \/ HistoryCall

SpecRecorder == RecorderConstructed /\ [][NextRecorder]_vars

(***************************************************************************)
(* Claims about the Recorder (SpecRecorder)                                *)
(***************************************************************************)

\* C36: between stop() and the next start() no RECORD_STEP message is sent,
\* for DOM events and history calls alike, and every step that is sent
\* carries the session id given to the start() that began the recording.
C36_StepsOnlyWhileRecording ==
    [][\A i \in (Len(cnt.sent) + 1)..Len(cnt'.sent) :
          /\ cnt.began # NotStarted
          /\ cnt'.sent[i].sessionId = cnt.began]_vars

\* C36 (witness): after a recording of session 1 that sent a step and was
\* stopped, the page called a wrapped history method and nothing was sent.
C36_SilentAfterStop ==
    /\ cnt.began = NotStarted
    /\ cnt.last \in HistoryMethods
    /\ cnt.wrappers[cnt.last] > 0
    /\ Len(cnt.sent) = 1
    /\ cnt.sent[1].sessionId = 1

\* C37: a history.pushState or history.replaceState call made while
\* recording sends exactly one navigation step and calls the page's original
\* method exactly once, however many start/stop cycles came before.
C37_OneStepPerHistoryCall ==
    [][(cnt'.last \in HistoryMethods /\ cnt'.recording /\ cnt'.events # cnt.events)
          => /\ Len(cnt'.sent) = Len(cnt.sent) + 1
             /\ cnt'.sent[Len(cnt'.sent)].type = "navigation"
             /\ cnt'.originals = 1]_vars

\* ------------------------------------------------------------------------
\* Claims about the skeleton phase (SpecDetector)
\* ------------------------------------------------------------------------

\* C38: checks.noSkeletons is true in a returned state only if the last
\* skeleton poll found no visible loading indicator.
C38_NoSkeletonsOnlyAfterCleanPoll ==
    (det.result.returned /\ det.result.checks.noSkeletons) => ~det.lastPollSaw

\* ------------------------------------------------------------------------
\* Claims about the two stores together (SpecDB)
\* ------------------------------------------------------------------------

\* C39: after any sequence of createSession, addStep, updateStep and
\* deleteSession calls, every record of the steps store has the sessionId of
\* an existing session and appears exactly once, with identical content, in
\* the steps list of that session.
C39_StoredStepsListedOnce ==
    \A r \in idb.steps :
        /\ idb.sessions[r.sessionId].exists
        /\ LET steps == idb.sessions[r.sessionId].steps
               at == {i \in 1..Len(steps) : steps[i].id = r.id}
           IN  /\ Cardinality(at) = 1
               /\ \A i \in at : steps[i] = r

(***************************************************************************)
(* Part 9.  PageLoadDetector of the content script: two overlapping        *)
(* waitForPageReady() calls on the one instance of the content script      *)
(***************************************************************************)

\* The latest start of the second call, in steps of the clock, and the
\* number of mutations of the page.
MaxOffset == 2
MaxMutations == 2

\* The step of the clock of this part.
Grid == DOM_STABILITY_WAIT \div 2

OverlapHorizon == MaxOffset * Grid + PAGE_LOAD_MAX_TIMEOUT

\* The DETECT_PAGE_READINESS requests, in the order of their arrival.
Callers == {1, 2}

\* this.mutationTimeout = null.  A timer carries the call whose observer
\* armed it and how many calls had started by then.
NoTimeout == [owner |-> 0, due |-> NoTimer, born |-> 0]

NotCalled ==
    [pc |-> "idle", startTime |-> NoTimer, observing |-> FALSE,
     initialTimer |-> NoTimer, globalTimer |-> NoTimer,
     returned |-> FALSE, reason |-> "", duration |-> 0]

\* new PageLoadDetector(): the two fields are fields of the instance.
PageLoadDetector ==
    [mutationTimeout |-> NoTimeout, lastMutationTime |-> 0,
     call |-> [c \in Callers |-> NotCalled]]

\* waitForPageReady() up to its first await: createTimeout() arms the global
\* timer, waitForDOMStability() writes the field, connects an observer and
\* arms the initial timer.
waitForPageReady(d, c) ==
    [d EXCEPT !.lastMutationTime = now,
              !.call[c] = [NotCalled EXCEPT !.pc = "dom", !.startTime = now,
                                            !.observing = TRUE,
                                            !.initialTimer = now + DOM_STABILITY_WAIT,
                                            !.globalTimer = now + PAGE_LOAD_MAX_TIMEOUT]]

\* The state that Promise.race settles to, with the duration of the return.
Settle(d, c, why) ==
    IF d.call[c].returned THEN d
    ELSE [d EXCEPT !.call[c].returned = TRUE, !.call[c].reason = why,
                   !.call[c].duration = now - d.call[c].startTime]

\* resolve() of the DOM phase of call c and the rest of performAllChecks on
\* a page without images, iframes, videos and loading indicators: the two
\* later phases resolve without waiting.  A second resolve() does nothing.
performAllChecks(d, c) ==
    IF d.call[c].pc # "dom" THEN d
    ELSE Settle([d EXCEPT !.call[c].pc = "done"], c,
                IF now - d.call[c].startTime >= PAGE_LOAD_MAX_TIMEOUT
                THEN "Timeout after DOM stability"
                ELSE "All checks passed")

\* The MutationObserver callback of call c: it clears whatever timer the
\* field holds and arms one that resolves call c.
observerCallback(d, c) ==
    [d EXCEPT !.lastMutationTime = now,
              !.mutationTimeout =
                  [owner |-> c, due |-> now + DOM_STABILITY_WAIT,
                   born |-> IF d.call[2].pc # "idle" THEN 2 ELSE 1]]

\* A mutation of the page: the connected observers are called in the order
\* of their creation.
Mutated(d) ==
    LET first == IF d.call[1].observing THEN observerCallback(d, 1) ELSE d
    IN  IF d.call[2].observing THEN observerCallback(first, 2) ELSE first

\* The callback of the timer armed at the start of waitForDOMStability().
initialTimerFired(d, c) ==
    LET e == [d EXCEPT !.call[c].initialTimer = NoTimer]
    IN  IF now - e.lastMutationTime >= DOM_STABILITY_WAIT
        THEN performAllChecks([e EXCEPT !.call[c].observing = FALSE,
                                        !.mutationTimeout = NoTimeout], c)
        ELSE e

\* The callback of the timer armed by an observer: the handle in the field
\* is dead from here on.
mutationTimeoutFired(d) ==
    LET c == d.mutationTimeout.owner
    IN  performAllChecks([d EXCEPT !.call[c].observing = FALSE,
                                   !.mutationTimeout = NoTimeout], c)

\* The callback of the timer of createTimeout().
globalTimerFired(d, c) ==
    Settle([d EXCEPT !.call[c].globalTimer = NoTimer], c, "Max timeout reached")

\* Timers with the same deadline run in the order of their creation: of one
\* call the global one before the initial one, the timers of the first call
\* before those of the second, and an observer's timer after the timers of
\* the calls that had started when it was armed.
RankOf(kind, c) ==
    3 * c - (IF kind = "global" THEN 2 ELSE IF kind = "initial" THEN 1 ELSE 0)

DueRanks(d) ==
    {RankOf("global", c) : c \in {x \in Callers : Due(d.call[x].globalTimer)}}
        \cup {RankOf("initial", c) : c \in {x \in Callers : Due(d.call[x].initialTimer)}}
        \cup (IF Due(d.mutationTimeout.due)
              THEN {RankOf("quiet", d.mutationTimeout.born)} ELSE {})

IsNext(d, rank) == rank \in DueRanks(d) /\ \A r \in DueRanks(d) : rank <= r

\* The detectors of this part: 0 is the instance of the content script that
\* serves both requests, c is an instance that serves request c only.
Detectors == {0} \cup Callers

DetectorOf(w) == IF w = 0 THEN det.instance ELSE det.alone[w]

WithDetector(w, d) ==
    IF w = 0 THEN [det EXCEPT !.instance = d] ELSE [det EXCEPT !.alone[w] = d]

\* Every timer that is due has run.
Quiescent == \A w \in Detectors : DueRanks(DetectorOf(w)) = {}

\* The first DETECT_PAGE_READINESS request has just arrived.
FirstRequest ==
    /\ now = startTime
    /\ det = [instance |-> waitForPageReady(PageLoadDetector, 1),
              alone |-> [c \in Callers |->
                            IF c = 1 THEN waitForPageReady(PageLoadDetector, 1)
                            ELSE PageLoadDetector],
              mutations |-> 0, lastChange |-> startTime]
    \* the rest of the program is not part of this specification
    /\ skeletonVisible = FALSE
    /\ cnt = [pc |-> "idle"]
    /\ idb = [calls |-> 0]
    /\ wfr = [pc |-> "idle"]
    /\ isRecording = FALSE
    /\ currentSessionId = 0
    /\ currentTabId = 0
    /\ stepCount = 0
    /\ storage = <<>>
    /\ restorePc = "done"
    /\ nextSession = 1
    /\ fired = 0
    /\ rec = <<>>
    /\ start = [pc |-> "idle"]
    /\ stop = [pc |-> "idle"]
    /\ tabChange = [pc |-> "idle"]
    /\ pageLoad = [pc |-> "idle"]
    /\ tabEvents = 0
    /\ dbQueue = <<>>
    /\ dbSteps = <<>>
    /\ bgNow = 0
    /\ lastCaptureTime = 0
    /\ calls = <<>>
    /\ captures = <<>>
    /\ tab = [active |-> TRUE, zoom |-> 100]

\* The second DETECT_PAGE_READINESS request arrives.
SecondRequest ==
    /\ Quiescent
    /\ det.instance.call[2].pc = "idle"
    /\ now <= MaxOffset * Grid
    /\ det' = [det EXCEPT !.instance = waitForPageReady(@, 2),
                          !.alone[2] = waitForPageReady(@, 2)]
    /\ UNCHANGED <<now, skeletonVisible, ctlVars, capVars, bndVars, dbVars, cntVars>>

\* The page changes its DOM.
PageMutation ==
    /\ Quiescent
    /\ det.mutations < MaxMutations
    /\ det' = [instance |-> Mutated(det.instance),
               alone |-> [c \in Callers |-> Mutated(det.alone[c])],
               mutations |-> det.mutations + 1, lastChange |-> now]
    /\ UNCHANGED <<now, skeletonVisible, ctlVars, capVars, bndVars, dbVars, cntVars>>

GlobalTimer ==
    /\ \E w \in Detectors, c \in Callers :
         /\ IsNext(DetectorOf(w), RankOf("global", c))
         /\ det' = WithDetector(w, globalTimerFired(DetectorOf(w), c))
    /\ UNCHANGED <<now, skeletonVisible, ctlVars, capVars, bndVars, dbVars, cntVars>>

InitialTimer ==
    /\ \E w \in Detectors, c \in Callers :
         /\ IsNext(DetectorOf(w), RankOf("initial", c))
         /\ det' = WithDetector(w, initialTimerFired(DetectorOf(w), c))
    /\ UNCHANGED <<now, skeletonVisible, ctlVars, capVars, bndVars, dbVars, cntVars>>

MutationTimer ==
    /\ \E w \in Detectors :
         /\ IsNext(DetectorOf(w), RankOf("quiet", DetectorOf(w).mutationTimeout.born))
         /\ Due(DetectorOf(w).mutationTimeout.due)
         /\ det' = WithDetector(w, mutationTimeoutFired(DetectorOf(w)))
    /\ UNCHANGED <<now, skeletonVisible, ctlVars, capVars, bndVars, dbVars, cntVars>>

\* Time passes when every due timer has run.
ClockStep ==
    /\ Quiescent
    /\ now < OverlapHorizon
    /\ now' = now + Grid
    /\ UNCHANGED <<det, skeletonVisible, ctlVars, capVars, bndVars, dbVars, cntVars>>

NextOverlap ==
    \/ SecondRequest
    \/ PageMutation
    \/ GlobalTimer
    \/ InitialTimer
    \/ MutationTimer
    \/ ClockStep

SpecOverlap == FirstRequest /\ [][NextOverlap]_vars

\* ------------------------------------------------------------------------
\* Claims about overlapping calls (SpecOverlap)
\* ------------------------------------------------------------------------

\* What a call returned.
ResultOf(d, c) ==
    [returned |-> d.call[c].returned, reason |-> d.call[c].reason,
     duration |-> d.call[c].duration]

\* The DOM has been quiet for the stability window since call c started.
QuietSince(d, c) ==
    /\ now - d.call[c].startTime >= DOM_STABILITY_WAIT
    /\ now - det.lastChange >= DOM_STABILITY_WAIT

\* C40: two overlapping waitForPageReady() calls on the same instance do not
\* interfere: the DOM phase of each call has resolved once the DOM has been
\* quiet for the stability window, and each call returns what it returns on
\* an instance of its own.
C40_OverlappingCallsIndependent ==
    Quiescent =>
        \A c \in Callers :
            det.instance.call[c].pc # "idle"
            => /\ QuietSince(det.instance, c) => det.instance.call[c].pc = "done"
               /\ ResultOf(det.instance, c) = ResultOf(det.alone[c], c)

(***************************************************************************)
(* Part 10.  RecorderController and the content scripts of the tabs:       *)
(* START_RECORDING commands that overlap, and steps from a tab that is no  *)
(* longer the recorded one                                                 *)
(***************************************************************************)

\* The START_RECORDING commands, in the order of their arrival.
StartCommands == {1, 2}

MaxActivations == 1
MaxPageEvents == 1

NoStart ==
    [pc |-> "idle", tabId |-> 0, sessionId |-> 0, response |-> "none",
     overlapped |-> FALSE]

\* The content script of a tab: the two fields of its Recorder and the
\* messages that chrome.tabs.sendMessage has queued for its listener.
ContentScript == [recording |-> FALSE, sessionId |-> 0, inbox |-> <<>>]

\* handleStartRecording of command i is between its first step and its
\* return.
InProgress(i) == start[i].pc \notin {"idle", "done"}

\* The variables this part leaves alone.
sessionRest ==
    <<now, det, skeletonVisible, restorePc, pageLoad, dbQueue, bgNow,
      lastCaptureTime, calls, captures, wfr, idb, cnt>>

\* saveState()
SavedState(recording, session, tabId, count) ==
    <<RecordingState(recording, session, tabId, count)>>

\* messageBroker.emit(command, data, tabId): the message is queued for the
\* tab; emit returns on the response or after its timeout, and its callers
\* do not look at what it returns.
emit(tabs, tabId, command, sessionId) ==
    [tabs EXCEPT ![tabId].inbox =
        Append(@, [command |-> command, sessionId |-> sessionId])]

\* Recorder.start(sessionId) and Recorder.stop() in the listener of the
\* content script.
Received(c, message) ==
    IF message.command = "START_RECORDING"
    THEN IF c.recording THEN c
         ELSE [c EXCEPT !.recording = TRUE, !.sessionId = message.sessionId]
    ELSE IF ~c.recording THEN c
         ELSE [c EXCEPT !.recording = FALSE, !.sessionId = 0]

ControllerIdle ==
    /\ isRecording = FALSE
    /\ currentSessionId = 0
    /\ currentTabId = 0
    /\ stepCount = 0
    /\ storage = <<>>
    /\ nextSession = 1
    /\ fired = 0
    /\ rec = <<>>
    /\ start = [i \in StartCommands |-> NoStart]
    /\ stop = [pc |-> "idle"]
    /\ tabChange = [pc |-> "idle", tabId |-> 0]
    /\ tabEvents = 0
    /\ dbSteps = <<>>
    /\ tab = [t \in Tabs |-> ContentScript]
    \* the rest of the program is not part of this specification
    /\ now = startTime
    /\ det = [phase |-> "idle"]
    /\ skeletonVisible = FALSE
    /\ restorePc = "done"
    /\ pageLoad = [pc |-> "idle"]
    /\ dbQueue = <<>>
    /\ bgNow = 0
    /\ lastCaptureTime = 0
    /\ calls = <<>>
    /\ captures = <<>>
    /\ wfr = [pc |-> "idle"]
    /\ idb = [calls |-> 0]
    /\ cnt = [pc |-> "idle"]

\* handleStartRecording up to `await chrome.tabs.query(...)`.
StartRequested ==
    /\ \E i \in StartCommands :
         /\ start[i].pc = "idle"
         /\ \A j \in StartCommands : j < i => start[j].pc # "idle"
         /\ start' = [start EXCEPT ![i].pc = "query",
                                   ![i].overlapped =
                                       \/ isRecording
                                       \/ \E j \in StartCommands \ {i} : InProgress(j)]
    /\ UNCHANGED <<isRecording, currentSessionId, currentTabId, stepCount,
                   storage, nextSession, fired, rec, stop, tabChange,
                   tabEvents, dbSteps, tab, sessionRest>>

\* The active tab is known: startRecording(activeTab.id, metadata) up to
\* `await chrome.tabs.get(tabId)`, or its throw, caught by the handler.
StartAfterQuery ==
    /\ \E i \in StartCommands, tabId \in Tabs :
         /\ start[i].pc = "query"
         /\ start' = IF isRecording
                     THEN [start EXCEPT ![i].pc = "done",
                                        ![i].response = "Recording already in progress"]
                     ELSE [start EXCEPT ![i].pc = "create", ![i].tabId = tabId]
    /\ UNCHANGED <<isRecording, currentSessionId, currentTabId, stepCount,
                   storage, nextSession, fired, rec, stop, tabChange,
                   tabEvents, dbSteps, tab, sessionRest>>

\* tabs.get, db.init and db.createSession have resolved: the four fields are
\* assigned, and the badge, the initial screenshot and
\* ensureContentScriptLoaded are awaited.
StartAfterCreate ==
    /\ \E i \in StartCommands :
         /\ start[i].pc = "create"
         /\ start' = [start EXCEPT ![i].pc = "ensure",
                                   ![i].sessionId = nextSession]
         /\ currentTabId' = start[i].tabId
    /\ nextSession' = nextSession + 1
    /\ currentSessionId' = nextSession
    /\ isRecording' = TRUE
    /\ stepCount' = 0
    /\ UNCHANGED <<storage, fired, rec, stop, tabChange, tabEvents, dbSteps,
                   tab, sessionRest>>

\* emit(START_RECORDING, {sessionId}, tabId)
StartAfterEnsure ==
    /\ \E i \in StartCommands :
         /\ start[i].pc = "ensure"
         /\ start' = [start EXCEPT ![i].pc = "emit"]
         /\ tab' = emit(tab, start[i].tabId, "START_RECORDING", start[i].sessionId)
    /\ UNCHANGED <<isRecording, currentSessionId, currentTabId, stepCount,
                   storage, nextSession, fired, rec, stop, tabChange,
                   tabEvents, dbSteps, sessionRest>>

\* saveState() and the response of handleStartRecording.
StartAfterEmit ==
    /\ \E i \in StartCommands :
         /\ start[i].pc = "emit"
         /\ start' = [start EXCEPT ![i].pc = "done", ![i].response = "success"]
    /\ storage' = SavedState(isRecording, currentSessionId, currentTabId, stepCount)
    /\ UNCHANGED <<isRecording, currentSessionId, currentTabId, stepCount,
                   nextSession, fired, rec, stop, tabChange, tabEvents,
                   dbSteps, tab, sessionRest>>

\* The listener of the content script of a tab takes its next message.
ContentReceives ==
    /\ \E t \in Tabs :
         /\ tab[t].inbox # <<>>
         /\ tab' = [tab EXCEPT ![t] =
                       [Received(tab[t], Head(tab[t].inbox))
                           EXCEPT !.inbox = Tail(tab[t].inbox)]]
    /\ UNCHANGED <<isRecording, currentSessionId, currentTabId, stepCount,
                   storage, nextSession, fired, rec, start, stop, tabChange,
                   tabEvents, dbSteps, sessionRest>>

\* An event on the page of a tab whose Recorder is recording: recordStep
\* sends RECORD_STEP.
TabEvent ==
    /\ fired < MaxPageEvents
    /\ \E t \in Tabs :
         /\ tab[t].recording /\ tab[t].sessionId # 0
         /\ rec' = Append(rec, [pc |-> "sent", origin |-> t,
                                sessionId |-> tab[t].sessionId,
                                recordedTab |-> 0])
    /\ fired' = fired + 1
    /\ UNCHANGED <<isRecording, currentSessionId, currentTabId, stepCount,
                   storage, nextSession, start, stop, tabChange, tabEvents,
                   dbSteps, tab, sessionRest>>

\* handleRecordStep(step) up to its first await: the handler is given the
\* step alone.
HandleRecordStep ==
    /\ \E e \in 1..Len(rec) :
         /\ rec[e].pc = "sent"
         /\ rec' = IF ~isRecording \/ currentSessionId = 0
                   THEN [rec EXCEPT ![e].pc = "refused"]
                   ELSE [rec EXCEPT ![e].pc = "capture",
                                    ![e].sessionId = currentSessionId,
                                    ![e].recordedTab = currentTabId]
    /\ UNCHANGED <<isRecording, currentSessionId, currentTabId, stepCount,
                   storage, nextSession, fired, start, stop, tabChange,
                   tabEvents, dbSteps, tab, sessionRest>>

\* db.addStep(this.currentSessionId, step), stepCount++ and saveState().
RecordStepSaved ==
    /\ \E e \in 1..Len(rec) :
         /\ rec[e].pc = "capture"
         /\ rec' = [rec EXCEPT ![e].pc = "done"]
         /\ dbSteps' = Append(dbSteps, [origin |-> rec[e].origin,
                                        into |-> currentSessionId,
                                        sessionId |-> rec[e].sessionId,
                                        recordedTab |-> rec[e].recordedTab])
    /\ stepCount' = stepCount + 1
    /\ storage' = SavedState(isRecording, currentSessionId, currentTabId, stepCount + 1)
    /\ UNCHANGED <<isRecording, currentSessionId, currentTabId, nextSession,
                   fired, start, stop, tabChange, tabEvents, tab, sessionRest>>

\* chrome.tabs.onActivated: handleTabChange(tabId) up to its first await.
TabChangeCalled ==
    /\ tabChange.pc = "idle"
    /\ tabEvents < MaxActivations
    /\ tabEvents' = tabEvents + 1
    /\ \E tabId \in Tabs :
         IF ~isRecording
         THEN UNCHANGED <<tabChange, currentTabId, tab>>
         ELSE IF currentTabId # 0 /\ currentTabId # tabId
         THEN /\ tab' = emit(tab, currentTabId, "STOP_RECORDING", 0)
              /\ tabChange' = [pc |-> "stop", tabId |-> tabId]
              /\ UNCHANGED currentTabId
         ELSE /\ currentTabId' = tabId
              /\ tabChange' = [pc |-> "ensure", tabId |-> tabId]
              /\ UNCHANGED tab
    /\ UNCHANGED <<isRecording, currentSessionId, stepCount, storage,
                   nextSession, fired, rec, start, stop, dbSteps, sessionRest>>

\* The emit of STOP_RECORDING to the old tab has returned.
TabChangeAfterStop ==
    /\ tabChange.pc = "stop"
    /\ currentTabId' = tabChange.tabId
    /\ tabChange' = [tabChange EXCEPT !.pc = "ensure"]
    /\ UNCHANGED <<isRecording, currentSessionId, stepCount, storage,
                   nextSession, fired, rec, start, stop, tabEvents, dbSteps,
                   tab, sessionRest>>

\* ensureContentScriptLoaded has resolved: emit(START_RECORDING,
\* {sessionId: this.currentSessionId}, tabId).
TabChangeAfterEnsure ==
    /\ tabChange.pc = "ensure"
    /\ tab' = emit(tab, tabChange.tabId, "START_RECORDING", currentSessionId)
    /\ tabChange' = [tabChange EXCEPT !.pc = "emit"]
    /\ UNCHANGED <<isRecording, currentSessionId, currentTabId, stepCount,
                   storage, nextSession, fired, rec, start, stop, tabEvents,
                   dbSteps, sessionRest>>

TabChangeSaved ==
    /\ tabChange.pc = "emit"
    /\ storage' = SavedState(isRecording, currentSessionId, currentTabId, stepCount)
    /\ tabChange' = [pc |-> "idle", tabId |-> 0]
    /\ UNCHANGED <<isRecording, currentSessionId, currentTabId, stepCount,
                   nextSession, fired, rec, start, stop, tabEvents, dbSteps,
                   tab, sessionRest>>

\* handleStopRecording: stopRecording() up to the emit of STOP_RECORDING.
StopRequested ==
    /\ stop.pc = "idle"
    /\ IF ~isRecording
       THEN stop' = [pc |-> "done"] /\ UNCHANGED tab
       ELSE /\ stop' = [pc |-> "emit"]
            /\ tab' = IF currentTabId # 0
                      THEN emit(tab, currentTabId, "STOP_RECORDING", 0)
                      ELSE tab
    /\ UNCHANGED <<isRecording, currentSessionId, currentTabId, stepCount,
                   storage, nextSession, fired, rec, start, tabChange,
                   tabEvents, dbSteps, sessionRest>>

\* The four fields are cleared and saved.
StopCleared ==
    /\ stop.pc = "emit"
    /\ stop' = [pc |-> "done"]
    /\ isRecording' = FALSE
    /\ currentSessionId' = 0
    /\ currentTabId' = 0
    /\ stepCount' = 0
    /\ storage' = SavedState(FALSE, 0, 0, 0)
    /\ UNCHANGED <<nextSession, fired, rec, start, tabChange, tabEvents,
                   dbSteps, tab, sessionRest>>

NextSessions ==
    \/ StartRequested
    \/ StartAfterQuery
    \/ StartAfterCreate
    \/ StartAfterEnsure
    \/ StartAfterEmit
    \/ ContentReceives
    \/ TabEvent
    \/ HandleRecordStep
    \/ RecordStepSaved
    \/ TabChangeCalled
    \/ TabChangeAfterStop
    \/ TabChangeAfterEnsure
    \/ TabChangeSaved
    \/ StopRequested
    \/ StopCleared

SpecSessions == ControllerIdle /\ [][NextSessions]_vars

\* ------------------------------------------------------------------------
\* Claims about overlapping commands and the recorded tab (SpecSessions)
\* ------------------------------------------------------------------------

\* C31: a START_RECORDING command issued while a recording is active or
\* while an earlier START_RECORDING is in the middle of starting fails with
\* 'Recording already in progress', creates no session and leaves the
\* current session id, tab id and step count unchanged.
C31_OneStartAtATime ==
    [][\A i \in StartCommands :
         (start[i].overlapped /\ start'[i] # start[i])
         => /\ nextSession' = nextSession
            /\ <<currentSessionId, currentTabId, stepCount>>'
                   = <<currentSessionId, currentTabId, stepCount>>
            /\ start'[i].pc = "done"
            /\ start'[i].response = "Recording already in progress"]_vars

\* C35: a step is persisted only if it originates from the tab that was the
\* recorded one when its RECORD_STEP was handled.
C35_StepsOnlyFromRecordedTab ==
    \A i \in 1..Len(dbSteps) : dbSteps[i].origin = dbSteps[i].recordedTab

====
